---- MODULE Spec2Model ----
(***************************************************************************)
(* Model of grapple.py: the seven stage functions, the external commands   *)
(* they launch through subprocess.check_call, and the orchestrator main(). *)
(*                                                                         *)
(* Strings are sequences of tokens.  A token is a TLA+ string that holds   *)
(* either one character ("." "/" "_" ">" and every letter of an extension, *)
(* of a cell type, of a match type or of a consensus line) or a word that  *)
(* the program only ever copies (a file stem, "samtools", "-bo").  None    *)
(* and the empty string are both the empty sequence.                       *)
(***************************************************************************)
EXTENDS Integers, Sequences, FiniteSets, TLC

\* ------------------------------------------------------------------ bounds
\* run identifiers are drawn from 0..MaxRunId instead of 0..2^32-1
MaxRunId == 1
\* the host reports 1..MaxCores logical cores
MaxCores == 1
\* a unit test calls its stage function at most MaxTestCalls times
MaxTestCalls == 2

\* the runs of main() that may share the temp directory
Runs == {1, 2}

None == <<>>

\* ------------------------------------------------------- library functions
\* str.rfind(c) + 1 (0 when absent)
RFind(s, c) ==
  LET hits == {i \in 1..Len(s) : s[i] = c}
  IN  IF hits = {} THEN 0 ELSE CHOOSE i \in hits : \A j \in hits : j <= i

\* posixpath.splitext: the extension starts at the last dot of the last
\* path component, unless that component has only dots before it
splitext(p) ==
  LET sep == RFind(p, "/")
      dot == RFind(p, ".")
  IN  IF dot > sep /\ (\E i \in (sep + 1)..(dot - 1) : p[i] # ".")
      THEN <<SubSeq(p, 1, dot - 1), SubSeq(p, dot, Len(p))>>
      ELSE <<p, <<>>>>

\* posixpath.split(p)[1]: everything after the last slash
basename(p) == SubSeq(p, RFind(p, "/") + 1, Len(p))

\* posixpath.join(a, b)
join(a, b) ==
  IF b # <<>> /\ b[1] = "/" THEN b
  ELSE IF a = <<>> \/ a[Len(a)] = "/" THEN a \o b
  ELSE a \o <<"/">> \o b

\* re.match with a pattern that is an alternation of literals: the match
\* is anchored at the start of s only, so it succeeds when some alternative
\* is a prefix of s
re_match(alternatives, s) ==
  \E a \in alternatives : Len(a) <= Len(s) /\ SubSeq(s, 1, Len(a)) = a

\* tempfile.gettempdir()
gettempdir == <<"/", "tmp">>

\* os.devnull and sys.stderr as targets of a child's stream
DevNull == <<"/", "dev", "/", "null">>
SysStderr == <<"sys.stderr">>
SysStdout == <<"sys.stdout">>

\* --------------------------------------------------------- format checks
Ext(p) == splitext(p)[2]

\* os.path.splitext(f)[1] != '.bam'
not_bam(p) == Ext(p) # <<".", "b", "a", "m">>

\* os.path.splitext(f)[1] != '.sam'
not_sam(p) == Ext(p) # <<".", "s", "a", "m">>

\* not re.match(r'\.((fastq)|(fq))', os.path.splitext(f)[1])
not_fastq(p) ==
  ~re_match({<<".", "f", "a", "s", "t", "q">>, <<".", "f", "q">>}, Ext(p))

\* not re.match(r'\.((fa)|(fna)|(fasta))', os.path.splitext(f)[1])
not_fasta(p) ==
  ~re_match({<<".", "f", "a">>, <<".", "f", "n", "a">>,
             <<".", "f", "a", "s", "t", "a">>}, Ext(p))

\* not re.match(r'(haploid)|(diploid)', cell_type)
not_cell_type(c) ==
  ~re_match({<<"h", "a", "p", "l", "o", "i", "d">>,
             <<"d", "i", "p", "l", "o", "i", "d">>}, c)

\* not re.match(r'(edit)|(hamming)|(insdel)', match_type)
not_match_type(m) ==
  ~re_match({<<"e", "d", "i", "t">>, <<"h", "a", "m", "m", "i", "n", "g">>,
             <<"i", "n", "s", "d", "e", "l">>}, m)

\* ------------------------------------------------------------- exceptions
NoExc == [type |-> "none", message |-> "", cmd |-> <<>>]
ValueError(m) == [type |-> "ValueError", message |-> m, cmd |-> <<>>]
\* IOError and OSError: both are caught as EnvironmentError
EnvironmentError == [type |-> "EnvironmentError", message |-> "", cmd |-> <<>>]
KeyboardInterrupt == [type |-> "KeyboardInterrupt", message |-> "", cmd |-> <<>>]
CalledProcessError(argv) ==
  [type |-> "CalledProcessError", message |-> "", cmd |-> argv]

\* ------------------------------------------------------ external commands
\* returncode of a child that has not exited, and of one killed by Ctrl-C
Running == -1
Interrupted == -2

\* One check_call: its argument vector, where the child's stdout and stderr
\* go, the files Python opens for writing just before it (opens), and the
\* files the tool itself reads and writes according to its command line.
Command(argv, out, err, opens, reads, writes) ==
  [argv |-> argv, stdout |-> out, stderr |-> err, opens |-> opens,
   reads |-> reads, writes |-> writes, returncode |-> Running]

\* the verbosity flag is not consulted: the tools always write to sys.stderr
err_handle_loud(verbose) == SysStderr

\* sys.stdout where the code has sys.stderr
err_handle_stdout(verbose) == IF verbose THEN SysStdout ELSE DevNull

\* err_handle = sys.stderr if verbose else null_handle
err_handle(verbose) == IF verbose THEN SysStderr ELSE DevNull

\* str() of a number
str(n) == <<ToString(n)>>

\* the ceiling is taken from the total memory
memory_limit_total(h) == h.total \div 1000000000

\* psutil.virtual_memory().available / 1000000000
memory_limit(h) == h.available \div 1000000000

\* ------------------------------------------------------------- bam_to_fq
bam_to_fq_error(read_file) ==
  IF not_bam(read_file) THEN ValueError("The read file is not in BAM format")
  ELSE NoExc

\* the output path leaves the identifier out
bam_to_fq_ofile_fixed(prefix_id) ==
  join(gettempdir, <<"bam_to_fq_out", ".", "f", "q">>)

bam_to_fq_ofile(prefix_id) ==
  join(gettempdir, prefix_id \o <<"bam_to_fq_out", ".", "f", "q">>)

bam_to_fq_cmds(read_file, prefix_id, verbose) ==
  LET ofile == bam_to_fq_ofile(prefix_id)
  IN  << Command(<< <<"samtools">>, <<"bam2fq">>, read_file >>,
                 ofile, err_handle(verbose), {ofile}, {read_file}, {ofile}) >>

\* -------------------------------------------------------- read_correction
\* the read file is not looked for
read_correction_error_unchecked(read_file, cell_type, match_type, files) ==
  IF not_fastq(read_file)
    THEN ValueError("The read file is not in FASTQ format")
  ELSE IF not_cell_type(cell_type)
    THEN ValueError("The cell type is not a valid value")
  ELSE IF not_match_type(match_type)
    THEN ValueError("The match type is not a valid value")
  ELSE NoExc

read_correction_error(read_file, cell_type, match_type, files) ==
  IF not_fastq(read_file)
    THEN ValueError("The read file is not in FASTQ format")
  ELSE IF read_file \notin files
    THEN ValueError("The read file doesn't exist")
  ELSE IF not_cell_type(cell_type)
    THEN ValueError("The cell type is not a valid value")
  ELSE IF not_match_type(match_type)
    THEN ValueError("The match type is not a valid value")
  ELSE NoExc

read_correction_ofile(read_file) ==
  join(gettempdir, <<"karect_">> \o basename(read_file))

read_correction_cmds(read_file, cell_type, match_type, verbose, h) ==
  << Command(<< <<"karect">>, <<"-correct">>,
                <<"-inputfile=">> \o read_file,
                <<"-celltype=">> \o cell_type,
                <<"-matchtype=">> \o match_type,
                <<"-threads=">> \o str(h.cores),
                <<"-memory=">> \o str(memory_limit(h)),
                <<"-resultdir=">> \o gettempdir,
                <<"-tempdir=">> \o gettempdir >>,
             err_handle(verbose), err_handle(verbose), {}, {read_file},
             {read_correction_ofile(read_file)}) >>

\* --------------------------------------------------------- read_alignment
read_alignment_error(read_file, ref_genome_file) ==
  IF not_fastq(read_file)
    THEN ValueError("The read file is not in FASTQ format")
  ELSE IF not_fasta(ref_genome_file)
    THEN ValueError("The reference genome file is not in FASTA format")
  ELSE NoExc

read_alignment_ofile(prefix_id) ==
  join(gettempdir, prefix_id \o <<"aligned_reads", ".", "s", "a", "m">>)

read_alignment_cmds(read_file, ref_genome_file, prefix_id, verbose, h) ==
  LET index_prefix == join(gettempdir, prefix_id \o <<"bt2_index">>)
      ofile == read_alignment_ofile(prefix_id)
  IN  << Command(<< <<"bowtie2-build">>, ref_genome_file, index_prefix >>,
                 DevNull, err_handle(verbose), {}, {ref_genome_file},
                 {index_prefix}),
         Command(<< <<"bowtie2">>, <<"-p">>, str(h.cores), <<"-x">>,
                    index_prefix, <<"-U">>, read_file >>,
                 ofile, err_handle(verbose), {ofile},
                 {index_prefix, read_file}, {ofile}) >>

\* ------------------------------------------------------------- sam_to_bam
sam_to_bam_error(read_file) ==
  IF not_sam(read_file) THEN ValueError("The read file is not in SAM format")
  ELSE NoExc

\* the output keeps the extension of the input
sam_to_bam_ofile_sam(prefix_id) ==
  join(gettempdir, prefix_id \o <<"aligned_reads", ".", "s", "a", "m">>)

sam_to_bam_ofile(prefix_id) ==
  join(gettempdir, prefix_id \o <<"aligned_reads", ".", "b", "a", "m">>)

sam_to_bam_cmds(read_file, prefix_id, verbose) ==
  LET ofile == sam_to_bam_ofile(prefix_id)
  IN  << Command(<< <<"samtools">>, <<"view">>, <<"-bo">>, ofile, read_file >>,
                 DevNull, err_handle(verbose), {}, {read_file}, {ofile}) >>

\* --------------------------------------------------------- sort_and_index
sort_and_index_error(read_file) ==
  IF not_bam(read_file) THEN ValueError("The read file is not in BAM format")
  ELSE NoExc

\* the output path leaves the identifier out
sort_and_index_ofile_fixed(prefix_id) ==
  join(gettempdir, <<"sorted_reads", ".", "b", "a", "m">>)

sort_and_index_ofile(prefix_id) ==
  join(gettempdir, prefix_id \o <<"sorted_reads", ".", "b", "a", "m">>)

\* the sorted reads are not indexed
sort_and_index_cmds_no_index(read_file, prefix_id, verbose, h) ==
  LET temp_prefix == join(gettempdir, prefix_id \o <<"samtools_sorting">>)
      ofile == sort_and_index_ofile(prefix_id)
  IN  << Command(<< <<"samtools">>, <<"sort">>, <<"-o">>, ofile, <<"-@">>,
                    str(h.cores), <<"-T">>, temp_prefix, read_file >>,
                 DevNull, err_handle(verbose), {}, {read_file}, {ofile}) >>

sort_and_index_cmds(read_file, prefix_id, verbose, h) ==
  LET temp_prefix == join(gettempdir, prefix_id \o <<"samtools_sorting">>)
      ofile == sort_and_index_ofile(prefix_id)
  IN  << Command(<< <<"samtools">>, <<"sort">>, <<"-o">>, ofile, <<"-@">>,
                    str(h.cores), <<"-T">>, temp_prefix, read_file >>,
                 DevNull, err_handle(verbose), {}, {read_file}, {ofile}),
         Command(<< <<"samtools">>, <<"index">>, ofile >>,
                 DevNull, err_handle(verbose), {}, {ofile},
                 {ofile \o <<".", "b", "a", "i">>}) >>

\* ---------------------------------------------------------- call_variants
call_variants_error(read_file, ref_genome_file) ==
  IF not_bam(read_file) THEN ValueError("The read file is not in BAM format")
  ELSE IF not_fasta(ref_genome_file)
    THEN ValueError("The reference genome file is not in FASTA format")
  ELSE NoExc

call_variants_ofile(prefix_id) ==
  join(gettempdir, prefix_id \o <<"consensus", ".", "f", "a">>)

\* the variants are indexed before they are called
call_variants_cmds_swapped(read_file, ref_genome_file, prefix_id, verbose) ==
  LET pileup == join(gettempdir, prefix_id \o <<"pileup", ".", "v", "c", "f">>)
      variants ==
        join(gettempdir, prefix_id \o <<"variants", ".", "v", "c", "f">>)
      ofile == call_variants_ofile(prefix_id)
  IN  << Command(<< <<"samtools">>, <<"mpileup">>, <<"-uf">>, ref_genome_file,
                    <<"-o">>, pileup, read_file >>,
                 DevNull, err_handle(verbose), {},
                 {ref_genome_file, read_file}, {pileup}),
         Command(<< <<"bcftools">>, <<"index">>, variants >>,
                 DevNull, err_handle(verbose), {}, {variants},
                 {variants \o <<".", "c", "s", "i">>}),
         Command(<< <<"bcftools">>, <<"call">>, <<"-mv">>, <<"-Oz">>,
                    <<"-o">>, variants, pileup >>,
                 err_handle(verbose), DevNull, {}, {pileup}, {variants}),
         Command(<< <<"bcftools">>, <<"consensus">>, <<"-f">>,
                    ref_genome_file, <<"-o">>, ofile, variants >>,
                 DevNull, err_handle(verbose), {},
                 {ref_genome_file, variants}, {ofile}) >>

call_variants_cmds(read_file, ref_genome_file, prefix_id, verbose) ==
  LET pileup == join(gettempdir, prefix_id \o <<"pileup", ".", "v", "c", "f">>)
      variants ==
        join(gettempdir, prefix_id \o <<"variants", ".", "v", "c", "f">>)
      ofile == call_variants_ofile(prefix_id)
  IN  << Command(<< <<"samtools">>, <<"mpileup">>, <<"-uf">>, ref_genome_file,
                    <<"-o">>, pileup, read_file >>,
                 DevNull, err_handle(verbose), {},
                 {ref_genome_file, read_file}, {pileup}),
         Command(<< <<"bcftools">>, <<"call">>, <<"-mv">>, <<"-Oz">>,
                    <<"-o">>, variants, pileup >>,
                 err_handle(verbose), DevNull, {}, {pileup}, {variants}),
         Command(<< <<"bcftools">>, <<"index">>, variants >>,
                 DevNull, err_handle(verbose), {}, {variants},
                 {variants \o <<".", "c", "s", "i">>}),
         Command(<< <<"bcftools">>, <<"consensus">>, <<"-f">>,
                    ref_genome_file, <<"-o">>, ofile, variants >>,
                 DevNull, err_handle(verbose), {},
                 {ref_genome_file, variants}, {ofile}) >>

\* ------------------------------------------------------- format_consensus
format_consensus_error(consensus_file) ==
  IF not_fasta(consensus_file)
    THEN ValueError("The consensus file is not in FASTA format")
  ELSE NoExc

format_consensus_ofile(prefix_id) ==
  join(gettempdir, prefix_id \o <<"formatted_consensus", ".", "f", "a">>)

\* str.upper() on one character; the letters of the model are those of
\* Consensus
upper_char(c) ==
  CASE c = "a" -> "A" [] c = "c" -> "C" [] c = "g" -> "G"
    [] c = "t" -> "T" [] c = "n" -> "N" [] c = "h" -> "H"
    [] c = "r" -> "R" [] OTHER -> c

upper(line) == [i \in 1..Len(line) |-> upper_char(line[i])]

\* every line is upper-cased, the header lines too
format_lines_all(lines) == [i \in 1..Len(lines) |-> upper(lines[i])]

\* the loop body of format_consensus, applied to every line
format_lines(lines) ==
  [i \in 1..Len(lines) |->
     IF re_match({<<">">>}, lines[i]) THEN lines[i] ELSE upper(lines[i])]

\* ------------------------------------------------------------------ state
VARIABLES
  args,         \* args[r]: the argument dictionary main() was called with
  isatty,       \* isatty[r]: sys.stderr.isatty()
  host,         \* logical cores and available memory of the host
  fs,           \* the file system: path -> [data, writer]
  pc,           \* pc[r]: where run r is in main()
  local,        \* local[r]: the local variables of main()
  call,         \* call[r]: the stage call in progress
  exc,          \* exc[r]: the exception being propagated
  calls,        \* calls[r]: the stage calls made so far and what they returned
  launched,     \* launched[r]: the commands check_call has started, in order
  stdin,        \* stdin[r]: the lines not yet read from standard input
  stdout,       \* stdout[r]: the lines written to sys.stdout
  stderr,       \* stderr[r]: what error() and status() printed
  exit_status   \* exit_status[r]: -1 while running, then 0 or 1

vars == <<args, isatty, host, fs, pc, local, call, exc, calls, launched,
          stdin, stdout, stderr, exit_status>>

\* ----------------------------------------------------------- file system
User == 0

written(f, paths, data, who) ==
  [p \in DOMAIN f \cup paths |->
     IF p \in paths THEN [data |-> data, writer |-> who] ELSE f[p]]

\* open(path, 'w') creates the file or truncates it
open_w(f, paths, who) == written(f, paths, <<>>, who)

isfile(f, p) == p \in DOMAIN f

\* What a tool that exited 0 left in its output files.  The tools are
\* opaque: bcftools consensus yields some FASTA text, the others a blob
\* named after the command.
Consensus ==
  { << <<">", "c", "h", "r">>, <<"a", "c", "G", "n">> >>,
    << <<">", "g">> >> }

tool_output(c) ==
  IF c.argv[1] = <<"bcftools">> /\ c.argv[2] = <<"consensus">>
  THEN Consensus
  ELSE { << c.argv[1] \o c.argv[2] >> }

\* ------------------------------------------------------- error and status
\* print(..., sep='', file=sys.stderr), in colour on a terminal
error_text(tty, message) ==
  IF tty THEN <<"ESC[31m", message, "ESC[0m">> ELSE <<message>>

status_text(tty, message) ==
  IF tty THEN <<"ESC[32m", message, "ESC[0m">> ELSE <<message>>

status(r, message) ==
  Append(stderr[r], [by |-> "status", message |-> message,
                     text |-> status_text(isatty[r], message)])

error(r, message) ==
  Append(stderr[r], [by |-> "error", message |-> message,
                     text |-> error_text(isatty[r], message)])

\* ------------------------------------------------------------ stage calls
NoCall ==
  [fn |-> "none", state |-> "none", read_file |-> None,
   ref_genome_file |-> None, prefix_id |-> None, cell_type |-> None,
   match_type |-> None, verbose |-> FALSE, ofile |-> None, todo |-> <<>>]

Call(fn, read_file, ref, prefix_id, cell_type, match_type, verbose) ==
  [fn |-> fn, state |-> "called", read_file |-> read_file,
   ref_genome_file |-> ref, prefix_id |-> prefix_id, cell_type |-> cell_type,
   match_type |-> match_type, verbose |-> verbose, ofile |-> None,
   todo |-> <<>>]

\* raise e inside the stage
Raise(r, e) ==
  /\ call' = [call EXCEPT ![r].state = "raised"]
  /\ exc' = [exc EXCEPT ![r] = e]
  /\ UNCHANGED calls

\* return ofile: the call is over and its log entry gets the value
Return(r, fr) ==
  /\ call' = [call EXCEPT ![r] = [fr EXCEPT !.state = "returned"]]
  /\ calls' = [calls EXCEPT ![r][Len(calls[r])].ret = fr.ofile]
  /\ UNCHANGED exc

\* The stage goes on with the commands fr.todo on file system f and command
\* log ran: it returns
\* its output path when none is left, otherwise it opens the next command's
\* output file and starts the command.  Opening the file fails when the
\* temp directory is not writable, starting the command fails when the tool
\* is not installed; both are OSError/IOError.
run_next(r, fr, f, ran) ==
  IF fr.todo = <<>>
  THEN /\ Return(r, fr)
       /\ fs' = f
       /\ launched' = ran
  ELSE LET c == Head(fr.todo)
       IN  \E oc \in {"started", "open fails", "spawn fails"} :
             CASE oc = "open fails" ->
                    /\ c.opens # {}
                    /\ fs' = f
                    /\ call' = [call EXCEPT ![r] = [fr EXCEPT !.state = "raised"]]
                    /\ exc' = [exc EXCEPT ![r] = EnvironmentError]
                    /\ launched' = ran
                    /\ UNCHANGED calls
               [] oc = "spawn fails" ->
                    /\ fs' = open_w(f, c.opens, r)
                    /\ call' = [call EXCEPT ![r] = [fr EXCEPT !.state = "raised"]]
                    /\ exc' = [exc EXCEPT ![r] = EnvironmentError]
                    /\ launched' = ran
                    /\ UNCHANGED calls
               [] oc = "started" ->
                    /\ fs' = open_w(f, c.opens, r)
                    /\ call' = [call EXCEPT ![r] = [fr EXCEPT !.state = "running"]]
                    /\ launched' = [ran EXCEPT ![r] = Append(@, c)]
                    /\ UNCHANGED <<exc, calls>>

\* The body every stage shares: validate, print the status line, run the
\* commands.
\* the output file is opened before the arguments are looked at
stage_body_truncates(r, e, message, ofile, cmds) ==
  IF e.type # "none"
  THEN /\ Raise(r, e)
       /\ fs' = open_w(fs, {ofile}, r)
       /\ UNCHANGED <<launched, stderr>>
  ELSE /\ stderr' = [stderr EXCEPT ![r] = status(r, message)]
       /\ run_next(r, [call[r] EXCEPT !.ofile = ofile, !.todo = cmds], fs,
                   launched)

stage_body(r, e, message, ofile, cmds) ==
  IF e.type # "none"
  THEN /\ Raise(r, e)
       /\ UNCHANGED <<fs, launched, stderr>>
  ELSE /\ stderr' = [stderr EXCEPT ![r] = status(r, message)]
       /\ run_next(r, [call[r] EXCEPT !.ofile = ofile, !.todo = cmds], fs,
                   launched)

Entered(r, fn) == call[r].fn = fn /\ call[r].state = "called"

\* the log entry of a call that has not returned
Started(c) ==
  [fn |-> c.fn, read_file |-> c.read_file,
   ref_genome_file |-> c.ref_genome_file, prefix_id |-> c.prefix_id,
   ret |-> None]

\* the output is numbered by the calls made so far
bam_to_fq_counted(r) ==
  /\ Entered(r, "bam_to_fq")
  /\ LET c == call[r]
         numbered == c.prefix_id \o str(Len(calls[r]))
     IN  stage_body(r, bam_to_fq_error(c.read_file),
                    "Converting the input from BAM format to FASTQ format",
                    bam_to_fq_ofile(numbered),
                    bam_to_fq_cmds(c.read_file, numbered, c.verbose))
  /\ UNCHANGED <<args, isatty, host, pc, local, stdin, stdout, exit_status>>

\* the process number goes into the file name
bam_to_fq_pid(r) ==
  /\ Entered(r, "bam_to_fq")
  /\ LET c == call[r]
         own == c.prefix_id \o <<ToString(r), "_">>
     IN  stage_body(r, bam_to_fq_error(c.read_file),
                    "Converting the input from BAM format to FASTQ format",
                    bam_to_fq_ofile(own),
                    bam_to_fq_cmds(c.read_file, own, c.verbose))
  /\ UNCHANGED <<args, isatty, host, pc, local, stdin, stdout, exit_status>>

bam_to_fq(r) ==
  /\ Entered(r, "bam_to_fq")
  /\ LET c == call[r]
     IN  stage_body(r, bam_to_fq_error(c.read_file),
                    "Converting the input from BAM format to FASTQ format",
                    bam_to_fq_ofile(c.prefix_id),
                    bam_to_fq_cmds(c.read_file, c.prefix_id, c.verbose))
  /\ UNCHANGED <<args, isatty, host, pc, local, stdin, stdout, exit_status>>

read_correction(r) ==
  /\ Entered(r, "read_correction")
  /\ LET c == call[r]
     IN  stage_body(r, read_correction_error(c.read_file, c.cell_type,
                                             c.match_type, DOMAIN fs),
                    "Correcting the reads",
                    read_correction_ofile(c.read_file),
                    read_correction_cmds(c.read_file, c.cell_type,
                                         c.match_type, c.verbose, host))
  /\ UNCHANGED <<args, isatty, host, pc, local, stdin, stdout, exit_status>>

read_alignment(r) ==
  /\ Entered(r, "read_alignment")
  /\ LET c == call[r]
     IN  stage_body(r, read_alignment_error(c.read_file, c.ref_genome_file),
                    "Aligning the reads",
                    read_alignment_ofile(c.prefix_id),
                    read_alignment_cmds(c.read_file, c.ref_genome_file,
                                        c.prefix_id, c.verbose, host))
  /\ UNCHANGED <<args, isatty, host, pc, local, stdin, stdout, exit_status>>

sam_to_bam(r) ==
  /\ Entered(r, "sam_to_bam")
  /\ LET c == call[r]
     IN  stage_body(r, sam_to_bam_error(c.read_file),
                    "Converting the aligned reads from SAM format to BAM format",
                    sam_to_bam_ofile(c.prefix_id),
                    sam_to_bam_cmds(c.read_file, c.prefix_id, c.verbose))
  /\ UNCHANGED <<args, isatty, host, pc, local, stdin, stdout, exit_status>>

sort_and_index(r) ==
  /\ Entered(r, "sort_and_index")
  /\ LET c == call[r]
     IN  stage_body(r, sort_and_index_error(c.read_file),
                    "Sorting and indexing the reads",
                    sort_and_index_ofile(c.prefix_id),
                    sort_and_index_cmds(c.read_file, c.prefix_id, c.verbose,
                                        host))
  /\ UNCHANGED <<args, isatty, host, pc, local, stdin, stdout, exit_status>>

call_variants(r) ==
  /\ Entered(r, "call_variants")
  /\ LET c == call[r]
     IN  stage_body(r, call_variants_error(c.read_file, c.ref_genome_file),
                    "Calling the variants",
                    call_variants_ofile(c.prefix_id),
                    call_variants_cmds(c.read_file, c.ref_genome_file,
                                       c.prefix_id, c.verbose))
  /\ UNCHANGED <<args, isatty, host, pc, local, stdin, stdout, exit_status>>

\* format_consensus launches nothing: it reads the consensus and writes the
\* formatted copy itself.  open(consensus_file) comes first in the with
\* statement, so a missing consensus raises IOError before the formatted
\* file is created.
format_consensus(r) ==
  /\ Entered(r, "format_consensus")
  /\ LET c == call[r]
         consensus_file == c.read_file   \* the first positional argument
         e == format_consensus_error(consensus_file)
         formatted_file == format_consensus_ofile(c.prefix_id)
     IN  IF e.type # "none"
         THEN /\ Raise(r, e)
              /\ UNCHANGED <<fs, stderr>>
         ELSE /\ stderr' = [stderr EXCEPT ![r] =
                              status(r, "Formatting the consensus")]
              /\ IF ~isfile(fs, consensus_file)
                 THEN Raise(r, EnvironmentError) /\ UNCHANGED fs
                 ELSE \E writable \in BOOLEAN :
                        IF ~writable
                        THEN Raise(r, EnvironmentError) /\ UNCHANGED fs
                        ELSE /\ fs' = written(fs, {formatted_file},
                                        format_lines(fs[consensus_file].data),
                                        r)
                             /\ Return(r, [c EXCEPT !.ofile = formatted_file])
  /\ UNCHANGED <<args, isatty, host, pc, local, launched, stdin, stdout,
                 exit_status>>

\* subprocess.call in place of check_call: the return code is dropped
check_ignored(returncode, argv) == NoExc

\* check_call's test of the child's return code
check(returncode, argv) ==
  IF returncode # 0 THEN CalledProcessError(argv) ELSE NoExc

\* subprocess.check_call blocks until the child exits.  Exit status 0, which
\* no tool gives when a file it is to read does not exist: the tool has
\* written its output and the stage goes on; nonzero: check_call
\* raises CalledProcessError carrying the argument vector, and the tool may
\* have left a partial output; Ctrl-C: KeyboardInterrupt.
check_call(r) ==
  /\ call[r].state = "running"
  /\ LET c == Head(call[r].todo)
         n == Len(launched[r])
         exited(rc) == [launched EXCEPT ![r][n].returncode = rc]
     IN  \/ \E data \in tool_output(c) :
               LET e == check(0, c.argv)
               IN  /\ c.reads \subseteq DOMAIN fs
                   /\ e.type = "none"
                   /\ run_next(r, [call[r] EXCEPT !.todo = Tail(@)],
                               written(fs, c.writes, data, r), exited(0))
         \/ \E left \in BOOLEAN :
               LET e == check(1, c.argv)
                   f == IF left THEN written(fs, c.writes, <<>>, r) ELSE fs
               IN  IF e.type = "none"
                   THEN run_next(r, [call[r] EXCEPT !.todo = Tail(@)], f,
                                 exited(1))
                   ELSE /\ Raise(r, e)
                        /\ fs' = f
                        /\ launched' = exited(1)
         \/ /\ Raise(r, KeyboardInterrupt)
            /\ launched' = exited(Interrupted)
            /\ UNCHANGED fs
  /\ UNCHANGED <<args, isatty, host, pc, local, stdin, stdout, stderr,
                 exit_status>>

\* ------------------------------------------------------------------ main
NoLocal ==
  [prefix_id |-> None, ifile |-> None, raw_reads |-> None,
   corrected_reads |-> None, aligned_reads |-> None,
   converted_aligned_reads |-> None, sorted_reads |-> None,
   consensus |-> None, cleaned_consensus |-> None, lines |-> <<>>]

InTry(r) ==
  pc[r] \in {"start", "stdin", "bam_to_fq", "read_correction",
             "read_alignment", "sam_to_bam", "sort_and_index",
             "call_variants", "format_consensus", "deliver"}

Returned(r, stage) ==
  /\ pc[r] = stage
  /\ call[r].fn = stage
  /\ call[r].state = "returned"

\* str(random.getrandbits(32)) + '_'
prefix_of(n) == str(n) \o <<"_">>

\* ploidy = 'haploid' if args['ploidy'] == 'n' else 'diploid'
ploidy_of(a) ==
  IF a.ploidy = <<"n">> THEN <<"h", "a", "p", "l", "o", "i", "d">>
  ELSE <<"d", "i", "p", "l", "o", "i", "d">>

mode_of_passthrough(a) ==
  IF a.mode = <<"equal">> THEN <<"e", "d", "i", "t">>
  ELSE IF a.mode = <<"indel">> THEN <<"i", "n", "s", "d", "e", "l">>
  ELSE a.mode

\* the if / elif / else on args['mode']
mode_of(a) ==
  IF a.mode = <<"equal">> THEN <<"e", "d", "i", "t">>
  ELSE IF a.mode = <<"indel">> THEN <<"i", "n", "s", "d", "e", "l">>
  ELSE <<"h", "a", "m", "m", "i", "n", "g">>

\* the flag is not consulted
corrects_always(a) == TRUE

\* if not args['disable_ec']
corrects(a) == ~a.disable_ec

\* only the presence of the reference is checked
ref_error_unchecked(a, f) ==
  IF a.ref = None
  THEN ValueError(
    "A reference genome was not provided so the pipeline cannot execute")
  ELSE NoExc

\* The reference checks that open main(): no reference is a ValueError, a
\* reference that is not a file an IOError.
ref_error(a, f) ==
  IF a.ref = None
  THEN ValueError(
    "A reference genome was not provided so the pipeline cannot execute")
  ELSE IF ~isfile(f, a.ref) THEN EnvironmentError
  ELSE NoExc

\* call_variants is handed the unsorted reads
call_of_unsorted(stage, l, a) ==
  CASE stage = "bam_to_fq" ->
         Call(stage, l.ifile, None, l.prefix_id, None, None, a.verbose)
    [] stage = "read_correction" ->
         Call(stage, l.raw_reads, None, None, ploidy_of(a), mode_of(a),
              a.verbose)
    [] stage = "read_alignment" ->
         Call(stage, l.corrected_reads, a.ref, l.prefix_id, None, None,
              a.verbose)
    [] stage = "sam_to_bam" ->
         Call(stage, l.aligned_reads, None, l.prefix_id, None, None,
              a.verbose)
    [] stage = "sort_and_index" ->
         Call(stage, l.converted_aligned_reads, None, l.prefix_id, None, None,
              a.verbose)
    [] stage = "call_variants" ->
         Call(stage, l.converted_aligned_reads, a.ref, l.prefix_id, None, None,
              a.verbose)
    [] stage = "format_consensus" ->
         Call(stage, l.consensus, None, l.prefix_id, None, None, FALSE)

\* The seven stage calls of main(), each with the arguments main() passes:
\* l holds main()'s local variables, a its args.
call_of(stage, l, a) ==
  CASE stage = "bam_to_fq" ->
         Call(stage, l.ifile, None, l.prefix_id, None, None, a.verbose)
    [] stage = "read_correction" ->
         Call(stage, l.raw_reads, None, None, ploidy_of(a), mode_of(a),
              a.verbose)
    [] stage = "read_alignment" ->
         Call(stage, l.corrected_reads, a.ref, l.prefix_id, None, None,
              a.verbose)
    [] stage = "sam_to_bam" ->
         Call(stage, l.aligned_reads, None, l.prefix_id, None, None,
              a.verbose)
    [] stage = "sort_and_index" ->
         Call(stage, l.converted_aligned_reads, None, l.prefix_id, None, None,
              a.verbose)
    [] stage = "call_variants" ->
         Call(stage, l.sorted_reads, a.ref, l.prefix_id, None, None,
              a.verbose)
    [] stage = "format_consensus" ->
         Call(stage, l.consensus, None, l.prefix_id, None, None, FALSE)

\* main() goes on to call stage with its locals now l
proceed(r, l, stage) ==
  /\ local' = [local EXCEPT ![r] = l]
  /\ call' = [call EXCEPT ![r] = call_of(stage, l, args[r])]
  /\ calls' = [calls EXCEPT ![r] =
                 Append(@, Started(call_of(stage, l, args[r])))]
  /\ pc' = [pc EXCEPT ![r] = stage]

\* main() raises e with its locals now l
fail(r, l, e) ==
  /\ local' = [local EXCEPT ![r] = l]
  /\ exc' = [exc EXCEPT ![r] = e]
  /\ UNCHANGED <<pc, call, calls>>

\* main() up to the first point where it blocks: the reference checks, the
\* run identifier, and the choice between the input file and stdin
main_start(r) ==
  /\ pc[r] = "start" /\ exc[r].type = "none"
  /\ LET e == ref_error(args[r], fs)
     IN  IF e.type # "none"
         THEN fail(r, local[r], e) /\ UNCHANGED fs
         ELSE \E n \in 0..MaxRunId :
           LET prefix_id == prefix_of(n)
               l == [local[r] EXCEPT !.prefix_id = prefix_id]
               dump == join(gettempdir,
                            prefix_id \o <<"stdin_dump", ".", "b", "a", "m">>)
           IN  IF args[r].input # None
               THEN IF isfile(fs, args[r].input)
                    THEN /\ proceed(r, [l EXCEPT !.ifile = args[r].input],
                                    "bam_to_fq")
                         /\ UNCHANGED <<fs, exc>>
                    ELSE fail(r, l, EnvironmentError) /\ UNCHANGED fs
               ELSE \E writable \in BOOLEAN :
                      IF writable
                      THEN /\ local' = [local EXCEPT ![r] =
                                          [l EXCEPT !.ifile = dump]]
                           /\ fs' = open_w(fs, {dump}, r)
                           /\ pc' = [pc EXCEPT ![r] = "stdin"]
                           /\ UNCHANGED <<exc, call, calls>>
                      ELSE /\ fail(r, [l EXCEPT !.ifile = dump],
                                   EnvironmentError)
                           /\ UNCHANGED fs
  /\ UNCHANGED <<args, isatty, host, launched, stdin, stdout, stderr,
                 exit_status>>

\* one line is read, as with readline(), and bam_to_fq is called at once
main_stdin_first_line(r) ==
  /\ pc[r] = "stdin" /\ exc[r].type = "none"
  /\ \/ /\ stdin[r] # <<>>
        /\ stdin' = [stdin EXCEPT ![r] = Tail(@)]
        /\ fs' = [fs EXCEPT ![local[r].ifile].data = Append(@, Head(stdin[r]))]
        /\ proceed(r, local[r], "bam_to_fq")
        /\ UNCHANGED exc
     \/ /\ stdin[r] = <<>>
        /\ proceed(r, local[r], "bam_to_fq")
        /\ UNCHANGED <<stdin, fs, exc>>
     \/ /\ fail(r, local[r], KeyboardInterrupt)
        /\ UNCHANGED <<stdin, fs>>
  /\ UNCHANGED <<args, isatty, host, launched, stdout, stderr, exit_status>>

\* for line in sys.stdin: ifile_handle.write(line); at end of input the
\* file is closed and bam_to_fq is called
main_stdin(r) ==
  /\ pc[r] = "stdin" /\ exc[r].type = "none"
  /\ \/ /\ stdin[r] # <<>>
        /\ stdin' = [stdin EXCEPT ![r] = Tail(@)]
        /\ fs' = [fs EXCEPT ![local[r].ifile].data = Append(@, Head(stdin[r]))]
        /\ UNCHANGED <<pc, local, call, calls, exc>>
     \/ /\ stdin[r] = <<>>
        /\ proceed(r, local[r], "bam_to_fq")
        /\ UNCHANGED <<stdin, fs, exc>>
     \/ /\ fail(r, local[r], KeyboardInterrupt)
        /\ UNCHANGED <<stdin, fs>>
  /\ UNCHANGED <<args, isatty, host, launched, stdout, stderr, exit_status>>

\* raw_reads = bam_to_fq(...), then the branch on args['disable_ec']
main_raw_reads(r) ==
  /\ Returned(r, "bam_to_fq") /\ exc[r].type = "none"
  /\ LET l == [local[r] EXCEPT !.raw_reads = call[r].ofile]
     IN  IF corrects(args[r])
         THEN proceed(r, l, "read_correction")
         ELSE proceed(r, [l EXCEPT !.corrected_reads = l.raw_reads],
                      "read_alignment")
  /\ UNCHANGED <<args, isatty, host, fs, exc, launched, stdin, stdout, stderr,
                 exit_status>>

\* corrected_reads = read_correction(...)
main_corrected_reads(r) ==
  /\ Returned(r, "read_correction") /\ exc[r].type = "none"
  /\ proceed(r, [local[r] EXCEPT !.corrected_reads = call[r].ofile],
             "read_alignment")
  /\ UNCHANGED <<args, isatty, host, fs, exc, launched, stdin, stdout, stderr,
                 exit_status>>

\* aligned_reads = read_alignment(...)
main_aligned_reads(r) ==
  /\ Returned(r, "read_alignment") /\ exc[r].type = "none"
  /\ proceed(r, [local[r] EXCEPT !.aligned_reads = call[r].ofile],
             "sam_to_bam")
  /\ UNCHANGED <<args, isatty, host, fs, exc, launched, stdin, stdout, stderr,
                 exit_status>>

\* converted_aligned_reads = sam_to_bam(...)
main_converted_aligned_reads(r) ==
  /\ Returned(r, "sam_to_bam") /\ exc[r].type = "none"
  /\ proceed(r, [local[r] EXCEPT !.converted_aligned_reads = call[r].ofile],
             "sort_and_index")
  /\ UNCHANGED <<args, isatty, host, fs, exc, launched, stdin, stdout, stderr,
                 exit_status>>

\* sorted_reads = sort_and_index(...)
main_sorted_reads(r) ==
  /\ Returned(r, "sort_and_index") /\ exc[r].type = "none"
  /\ proceed(r, [local[r] EXCEPT !.sorted_reads = call[r].ofile],
             "call_variants")
  /\ UNCHANGED <<args, isatty, host, fs, exc, launched, stdin, stdout, stderr,
                 exit_status>>

\* consensus = call_variants(...)
main_consensus(r) ==
  /\ Returned(r, "call_variants") /\ exc[r].type = "none"
  /\ proceed(r, [local[r] EXCEPT !.consensus = call[r].ofile],
             "format_consensus")
  /\ UNCHANGED <<args, isatty, host, fs, exc, launched, stdin, stdout, stderr,
                 exit_status>>

\* cleaned_consensus = format_consensus(...), then the two opens of the
\* delivery: the cleaned consensus for reading and, when args['output'] is
\* set, the output file for writing
main_cleaned_consensus(r) ==
  /\ Returned(r, "format_consensus") /\ exc[r].type = "none"
  /\ LET l == [local[r] EXCEPT !.cleaned_consensus = call[r].ofile]
         deliver(f) ==
           /\ local' = [local EXCEPT ![r] =
                          [l EXCEPT !.lines = fs[l.cleaned_consensus].data]]
           /\ fs' = f
           /\ pc' = [pc EXCEPT ![r] = "deliver"]
           /\ UNCHANGED <<exc, call, calls>>
     IN  IF ~isfile(fs, l.cleaned_consensus)
         THEN fail(r, l, EnvironmentError) /\ UNCHANGED fs
         ELSE IF args[r].output # None
         THEN \E writable \in BOOLEAN :
                IF writable
                THEN deliver(open_w(fs, {args[r].output}, r))
                ELSE fail(r, l, EnvironmentError) /\ UNCHANGED fs
         ELSE deliver(fs)
  /\ UNCHANGED <<args, isatty, host, launched, stdin, stdout, stderr,
                 exit_status>>

\* the success status can be printed while lines are left to deliver
main_deliver_early(r) ==
  /\ pc[r] = "deliver" /\ exc[r].type = "none"
  /\ \/ /\ local[r].lines # <<>>
        /\ local' = [local EXCEPT ![r].lines = Tail(@)]
        /\ IF args[r].output # None
           THEN /\ fs' = [fs EXCEPT ![args[r].output].data =
                            Append(@, Head(local[r].lines))]
                /\ UNCHANGED stdout
           ELSE /\ stdout' = [stdout EXCEPT ![r] =
                                Append(@, Head(local[r].lines))]
                /\ UNCHANGED fs
        /\ UNCHANGED <<pc, exc, stderr, exit_status>>
     \/ /\ stderr' = [stderr EXCEPT ![r] = status(r,
             "The reference genome has been successfully assembled!")]
        /\ pc' = [pc EXCEPT ![r] = "exited"]
        /\ exit_status' = [exit_status EXCEPT ![r] = 0]
        /\ UNCHANGED <<local, fs, stdout, exc>>
     \/ /\ local[r].lines # <<>>
        /\ exc' = [exc EXCEPT ![r] = KeyboardInterrupt]
        /\ UNCHANGED <<local, fs, stdout, pc, stderr, exit_status>>
  /\ UNCHANGED <<args, isatty, host, call, calls, launched, stdin>>

\* one iteration of "for line in consensus_handle"; after the last line
\* the success status is printed and main() returns
main_deliver(r) ==
  /\ pc[r] = "deliver" /\ exc[r].type = "none"
  /\ \/ /\ local[r].lines # <<>>
        /\ local' = [local EXCEPT ![r].lines = Tail(@)]
        /\ IF args[r].output # None
           THEN /\ fs' = [fs EXCEPT ![args[r].output].data =
                            Append(@, Head(local[r].lines))]
                /\ UNCHANGED stdout
           ELSE /\ stdout' = [stdout EXCEPT ![r] =
                                Append(@, Head(local[r].lines))]
                /\ UNCHANGED fs
        /\ UNCHANGED <<pc, exc, stderr, exit_status>>
     \/ /\ local[r].lines = <<>>
        /\ stderr' = [stderr EXCEPT ![r] = status(r,
             "The reference genome has been successfully assembled!")]
        /\ pc' = [pc EXCEPT ![r] = "exited"]
        /\ exit_status' = [exit_status EXCEPT ![r] = 0]
        /\ UNCHANGED <<local, fs, stdout, exc>>
     \/ /\ local[r].lines # <<>>
        /\ exc' = [exc EXCEPT ![r] = KeyboardInterrupt]
        /\ UNCHANGED <<local, fs, stdout, pc, stderr, exit_status>>
  /\ UNCHANGED <<args, isatty, host, call, calls, launched, stdin>>

\* what an except clause does: call error(message), or nothing
NoBranch == [error |-> FALSE, message |-> ""]
Branch(m) == [error |-> TRUE, message |-> m]

\* the bcftools index branch repeats the samtools index message
called_process_error_copied(cmd) ==
  IF cmd[1] = <<"samtools">> THEN
    IF cmd[2] = <<"bam2fq">> THEN
      Branch("The reads could not be converted from BAM to FASTQ format")
    ELSE IF cmd[2] = <<"view">> THEN
      Branch("The reads could not be converted from SAM format to BAM format")
    ELSE IF cmd[2] = <<"sort">> THEN
      Branch("The read file could not be sorted")
    ELSE IF cmd[2] = <<"index">> THEN
      Branch("The sorted reads could not be indexed")
    ELSE IF cmd[2] = <<"mpileup">> THEN
      Branch("The reads could not be processed by mpileup before being called")
    ELSE NoBranch
  ELSE IF cmd[1] = <<"karect">> THEN
    Branch("The reads could not be corrected")
  ELSE IF cmd[1] = <<"bowtie2-build">> THEN
    Branch("An index could not be constructed from the reference genome provided")
  ELSE IF cmd[1] = <<"bowtie2">> THEN
    Branch("The reads could not be aligned to the reference genome")
  ELSE IF cmd[1] = <<"bcftools">> THEN
    IF cmd[2] = <<"call">> THEN
      Branch("The variants could not be called")
    ELSE IF cmd[2] = <<"index">> THEN
      Branch("The sorted reads could not be indexed")
    ELSE IF cmd[2] = <<"consensus">> THEN
      Branch("A consensus could not be generated from the variants")
    ELSE NoBranch
  ELSE NoBranch

\* The if / elif chain of "except CalledProcessError as e": the message
\* passed to error(), or no call of error() when no branch matches.
called_process_error(cmd) ==
  IF cmd[1] = <<"samtools">> THEN
    IF cmd[2] = <<"bam2fq">> THEN
      Branch("The reads could not be converted from BAM to FASTQ format")
    ELSE IF cmd[2] = <<"view">> THEN
      Branch("The reads could not be converted from SAM format to BAM format")
    ELSE IF cmd[2] = <<"sort">> THEN
      Branch("The read file could not be sorted")
    ELSE IF cmd[2] = <<"index">> THEN
      Branch("The sorted reads could not be indexed")
    ELSE IF cmd[2] = <<"mpileup">> THEN
      Branch("The reads could not be processed by mpileup before being called")
    ELSE NoBranch
  ELSE IF cmd[1] = <<"karect">> THEN
    Branch("The reads could not be corrected")
  ELSE IF cmd[1] = <<"bowtie2-build">> THEN
    Branch("An index could not be constructed from the reference genome provided")
  ELSE IF cmd[1] = <<"bowtie2">> THEN
    Branch("The reads could not be aligned to the reference genome")
  ELSE IF cmd[1] = <<"bcftools">> THEN
    IF cmd[2] = <<"call">> THEN
      Branch("The variants could not be called")
    ELSE IF cmd[2] = <<"index">> THEN
      Branch("The variant index could not be constructed")
    ELSE IF cmd[2] = <<"consensus">> THEN
      Branch("A consensus could not be generated from the variants")
    ELSE NoBranch
  ELSE NoBranch

\* the KeyboardInterrupt clause does not call error()
handler_silent(e) ==
  IF e.type = "KeyboardInterrupt" THEN NoBranch
  ELSE IF e.type = "ValueError" THEN Branch(e.message)
  ELSE IF e.type = "EnvironmentError" THEN
    Branch("An error has occurred. Please ensure the input and reference files exist and all of the required utilities are installed in your PATH")
  ELSE called_process_error(e.cmd)

\* the KeyboardInterrupt clause reports the interrupt
handler_noisy(e) ==
  IF e.type = "KeyboardInterrupt" THEN Branch("Interrupted by the user")
  ELSE IF e.type = "ValueError" THEN Branch(e.message)
  ELSE IF e.type = "EnvironmentError" THEN
    Branch("An error has occurred. Please ensure the input and reference files exist and all of the required utilities are installed in your PATH")
  ELSE called_process_error(e.cmd)

\* the except clauses of main(), in order
handler(e) ==
  IF e.type = "KeyboardInterrupt" THEN Branch("")
  ELSE IF e.type = "ValueError" THEN Branch(e.message)
  ELSE IF e.type = "EnvironmentError" THEN
    Branch("An error has occurred. Please ensure the input and reference files exist and all of the required utilities are installed in your PATH")
  ELSE called_process_error(e.cmd)

\* the exceptions that leave the try block of main()
propagates(r) ==
  /\ InTry(r)
  /\ exc[r].type # "none"

\* the except clause prints the message and has the stage tried again
main_except_retries(r) ==
  /\ propagates(r)
  /\ call[r].state = "raised"
  /\ stderr' = [stderr EXCEPT ![r] = error(r, handler(exc[r]).message)]
  /\ exc' = [exc EXCEPT ![r] = NoExc]
  /\ call' = [call EXCEPT ![r].state = "called"]
  /\ UNCHANGED <<args, isatty, host, fs, pc, local, calls, launched,
                 stdin, stdout, exit_status>>

\* An exception reaches the except clauses: error() prints the message and
\* exits with status 1; when no clause calls error(), main() returns and
\* the script ends with status 0.
main_except(r) ==
  /\ propagates(r)
  /\ LET h == handler(exc[r])
     IN  IF h.error
         THEN /\ stderr' = [stderr EXCEPT ![r] = error(r, h.message)]
              /\ exit_status' = [exit_status EXCEPT ![r] = 1]
         ELSE /\ exit_status' = [exit_status EXCEPT ![r] = 0]
              /\ UNCHANGED stderr
  /\ pc' = [pc EXCEPT ![r] = "exited"]
  /\ UNCHANGED <<args, isatty, host, fs, local, call, exc, calls, launched,
                 stdin, stdout>>

\* ------------------------------------------------------- initial states
\* the user's files
RefFa == <<"ref", ".", "f", "a">>
RefFasta == <<"dir", "/", "ref", ".", "f", "a", "s", "t", "a">>
RefFq == <<"ref", ".", "f", "q">>
RefFastq == <<"ref", ".", "f", "a", "s", "t", "q">>
RefAbsent == <<"absent", ".", "f", "a">>
ReadsBam == <<"reads", ".", "b", "a", "m">>
ReadsFq == <<"reads", ".", "f", "q">>
ReadsAbsent == <<"absent", ".", "b", "a", "m">>
ReadsSam == <<"reads", ".", "s", "a", "m">>
ReadsFqx == <<"reads", ".", "f", "q", "x">>
ReadsFqAbsent == <<"absent", ".", "f", "q">>
OutFa == <<"out", ".", "f", "a">>

UserFiles ==
  {RefFa, RefFasta, RefFq, RefFastq, ReadsBam, ReadsFq, ReadsSam, ReadsFqx}

UserFs == [p \in UserFiles |-> [data |-> << <<"user">> >>, writer |-> User]]

\* What argparse can hand to main(): every reference and input kind, both
\* ploidies and all three modes (the diploid runs with the first mode only).
Args ==
  {a \in [ref : {None, RefFa, RefFq, RefFastq, RefAbsent},
          input : {None, ReadsBam, ReadsFq, ReadsAbsent},
          output : {None, OutFa},
          disable_ec : BOOLEAN,
          ploidy : {<<"n">>, <<"2n">>},
          mode : {<<"equal">>, <<"indel">>, <<"subs">>},
          verbose : BOOLEAN] :
     a.ploidy = <<"2n">> => a.mode = <<"equal">>}

NoArgs ==
  [ref |-> None, input |-> None, output |-> None, disable_ec |-> FALSE,
   ploidy |-> <<"n">>, mode |-> <<"equal">>, verbose |-> FALSE]

Hosts == [cores : 1..MaxCores, available : {1500000000}]

\* the lines waiting on standard input
Stdins == {<<>>, << <<"bam1">>, <<"bam2">> >>}

InitCommon ==
  /\ isatty \in [Runs -> BOOLEAN]
  /\ isatty[2] = FALSE
  /\ host \in Hosts
  /\ fs = UserFs
  /\ local = [r \in Runs |-> NoLocal]
  /\ exc = [r \in Runs |-> NoExc]
  /\ launched = [r \in Runs |-> <<>>]
  /\ stdout = [r \in Runs |-> <<>>]
  /\ stderr = [r \in Runs |-> <<>>]
  /\ exit_status = [r \in Runs |-> -1]

\* one run of main()
Init ==
  /\ InitCommon
  /\ \E a \in Args : args = [r \in Runs |-> IF r = 1 THEN a ELSE NoArgs]
  /\ \E s \in Stdins : stdin = [r \in Runs |-> IF r = 1 THEN s ELSE <<>>]
  /\ pc = [r \in Runs |-> IF r = 1 THEN "start" ELSE "idle"]
  /\ call = [r \in Runs |-> NoCall]
  /\ calls = [r \in Runs |-> <<>>]

Stage(r) ==
  \/ bam_to_fq(r)
  \/ read_correction(r)
  \/ read_alignment(r)
  \/ sam_to_bam(r)
  \/ sort_and_index(r)
  \/ call_variants(r)
  \/ format_consensus(r)
  \/ check_call(r)

Main(r) ==
  \/ main_start(r)
  \/ main_stdin(r)
  \/ main_raw_reads(r)
  \/ main_corrected_reads(r)
  \/ main_aligned_reads(r)
  \/ main_converted_aligned_reads(r)
  \/ main_sorted_reads(r)
  \/ main_consensus(r)
  \/ main_cleaned_consensus(r)
  \/ main_deliver(r)
  \/ main_except(r)

Next == \E r \in Runs : Main(r) \/ Stage(r)

Spec == Init /\ [][Next]_vars

\* ------------------------------------------------- a run that goes on
\* One run of main() in which Python keeps executing, standard input ends
\* and every process launched exits (or the user interrupts it).
ArgsFair ==
  {a \in Args : /\ a.ref \in {RefFa, RefAbsent}
                /\ a.input \in {None, ReadsBam, ReadsAbsent}
                /\ a.ploidy = <<"n">> /\ a.mode = <<"equal">> /\ ~a.verbose}

InitFair ==
  /\ InitCommon
  /\ \E a \in ArgsFair : args = [r \in Runs |-> IF r = 1 THEN a ELSE NoArgs]
  /\ \E s \in Stdins : stdin = [r \in Runs |-> IF r = 1 THEN s ELSE <<>>]
  /\ pc = [r \in Runs |-> IF r = 1 THEN "start" ELSE "idle"]
  /\ call = [r \in Runs |-> NoCall]
  /\ calls = [r \in Runs |-> <<>>]

SpecFair ==
  /\ InitFair
  /\ [][Next]_vars
  /\ \A r \in Runs : WF_vars(Main(r) \/ Stage(r))

\* --------------------------------------------------- two runs of main()
\* Two users start the pipeline at the same time on one host: the runs share
\* the file system and the temp directory, and getrandbits gives them
\* different identifiers.  Run 1 reads standard input and corrects its
\* reads; run 2 reads standard input or a file and corrects or not.
Args1 ==
  {a \in Args : /\ a.ref = RefFa /\ a.input = None /\ a.output = None
                /\ ~a.disable_ec /\ a.ploidy = <<"n">>
                /\ a.mode = <<"equal">> /\ ~a.verbose}

Args2 ==
  {a \in Args : /\ a.ref = RefFa /\ a.input \in {None, ReadsBam}
                /\ a.output = None /\ a.ploidy = <<"n">>
                /\ a.mode = <<"equal">> /\ ~a.verbose}

InitConc ==
  /\ InitCommon
  /\ isatty[1] = FALSE
  /\ host.cores = 1
  /\ \E a1 \in Args1, a2 \in Args2 :
       args = [r \in Runs |-> IF r = 1 THEN a1 ELSE a2]
  /\ stdin = [r \in Runs |-> <<>>]
  /\ pc = [r \in Runs |-> "start"]
  /\ call = [r \in Runs |-> NoCall]
  /\ calls = [r \in Runs |-> <<>>]

\* the identifiers drawn so far are different
IdsDiffer ==
  \/ local[1].prefix_id = None
  \/ local[2].prefix_id = None
  \/ local[1].prefix_id # local[2].prefix_id

\* main_start of a run that draws an identifier the other run does not have
main_start_distinct(r) == main_start(r) /\ IdsDiffer'

NextConc ==
  \E r \in Runs :
    \/ main_start_distinct(r)
    \/ main_stdin(r)
    \/ main_raw_reads(r)
    \/ main_corrected_reads(r)
    \/ main_aligned_reads(r)
    \/ main_converted_aligned_reads(r)
    \/ main_sorted_reads(r)
    \/ main_consensus(r)
    \/ main_cleaned_consensus(r)
    \/ main_deliver(r)
    \/ main_except(r)
    \/ Stage(r)

SpecConc == InitConc /\ [][NextConc]_vars

\* ------------------------------------ two runs with the same identifier
\* getrandbits(32) can give two runs that overlap in time the same number.
\* Run 1 reads a file and corrects its reads; run 2 reads standard input and
\* does not correct.  The runs are followed while everything succeeds and
\* until each has its formatted consensus, the last intermediate artifact.
ArgsSame1 ==
  {a \in Args : /\ a.ref = RefFa /\ a.input = ReadsBam /\ a.output = None
                /\ ~a.disable_ec /\ a.ploidy = <<"n">>
                /\ a.mode = <<"equal">> /\ ~a.verbose}

ArgsSame2 ==
  {a \in Args : /\ a.ref = RefFa /\ a.input = None /\ a.output = None
                /\ a.disable_ec /\ a.ploidy = <<"n">>
                /\ a.mode = <<"equal">> /\ ~a.verbose}

InitSame ==
  /\ InitCommon
  /\ isatty[1] = FALSE
  /\ host.cores = 1
  /\ \E a1 \in ArgsSame1, a2 \in ArgsSame2 :
       args = [r \in Runs |-> IF r = 1 THEN a1 ELSE a2]
  /\ stdin = [r \in Runs |-> <<>>]
  /\ pc = [r \in Runs |-> "start"]
  /\ call = [r \in Runs |-> NoCall]
  /\ calls = [r \in Runs |-> <<>>]

\* the identifiers drawn so far are the same
IdsSame ==
  \/ local[1].prefix_id = None
  \/ local[2].prefix_id = None
  \/ local[1].prefix_id = local[2].prefix_id

\* main_start of a run that draws the identifier the other run has
main_start_same(r) == main_start(r) /\ IdsSame'

\* no tool has failed, no file has been refused and nobody has pressed Ctrl-C
Unfailing == \A r \in Runs : exc[r].type = "none"

NextSame ==
  \E r \in Runs :
    \/ main_start_same(r) /\ Unfailing'
    \/ main_stdin(r) /\ Unfailing'
    \/ main_raw_reads(r)
    \/ main_corrected_reads(r)
    \/ main_aligned_reads(r)
    \/ main_converted_aligned_reads(r)
    \/ main_sorted_reads(r)
    \/ main_consensus(r)
    \/ main_cleaned_consensus(r)
    \/ Stage(r) /\ Unfailing'

SpecSame == InitSame /\ [][NextSame]_vars

\* ------------------------------------------------- a host under load
\* What multiprocessing.cpu_count() and psutil.virtual_memory() can report:
\* the cores that are online, and the available and the total memory in
\* bytes.  Other programs on the host change the first two at any time.
Capacities ==
  [cores : {1, 2}, available : {500000000, 1500000000}, total : {2100000000}]

host_changes ==
  /\ \E r \in Runs : pc[r] \notin {"idle", "exited"}
  /\ host' \in Capacities \ {host}
  /\ UNCHANGED <<args, isatty, fs, pc, local, call, exc, calls, launched,
                 stdin, stdout, stderr, exit_status>>

ArgsHost ==
  {a \in Args : /\ a.ref = RefFa /\ a.input \in {None, ReadsBam}
                /\ a.output = None
                /\ ~a.disable_ec /\ a.ploidy = <<"n">>
                /\ a.mode = <<"equal">> /\ ~a.verbose}

InitHost ==
  /\ isatty = [r \in Runs |-> FALSE]
  /\ host \in Capacities
  /\ fs = UserFs
  /\ local = [r \in Runs |-> NoLocal]
  /\ exc = [r \in Runs |-> NoExc]
  /\ launched = [r \in Runs |-> <<>>]
  /\ stdout = [r \in Runs |-> <<>>]
  /\ stderr = [r \in Runs |-> <<>>]
  /\ exit_status = [r \in Runs |-> -1]
  /\ \E a \in ArgsHost : args = [r \in Runs |-> IF r = 1 THEN a ELSE NoArgs]
  /\ stdin = [r \in Runs |-> IF r = 1 THEN << <<"bam1">> >> ELSE <<>>]
  /\ pc = [r \in Runs |-> IF r = 1 THEN "start" ELSE "idle"]
  /\ call = [r \in Runs |-> NoCall]
  /\ calls = [r \in Runs |-> <<>>]

NextHost == host_changes \/ \E r \in Runs : Main(r) \/ Stage(r)

SpecHost == InitHost /\ [][NextHost]_vars

\* ------------------------------------------- main() called with any options
\* main() takes a dictionary: a caller other than the argparse block can hand
\* it a ploidy and a mode outside the choices the parser enforces.
Ploidies == {<<"n">>, <<"2n">>, <<"4n">>, <<"haploid">>, None}

Modes == {<<"equal">>, <<"indel">>, <<"subs">>, <<"edit">>, <<"other">>, None}

ArgsWide ==
  [ref : {RefFa}, input : {None, ReadsBam}, output : {None},
   disable_ec : {FALSE}, ploidy : Ploidies, mode : Modes, verbose : {FALSE}]

InitWide ==
  /\ isatty = [r \in Runs |-> FALSE]
  /\ host \in Hosts
  /\ fs = UserFs
  /\ local = [r \in Runs |-> NoLocal]
  /\ exc = [r \in Runs |-> NoExc]
  /\ launched = [r \in Runs |-> <<>>]
  /\ stdout = [r \in Runs |-> <<>>]
  /\ stderr = [r \in Runs |-> <<>>]
  /\ exit_status = [r \in Runs |-> -1]
  /\ \E a \in ArgsWide : args = [r \in Runs |-> IF r = 1 THEN a ELSE NoArgs]
  /\ stdin = [r \in Runs |-> IF r = 1 THEN << <<"bam1">> >> ELSE <<>>]
  /\ pc = [r \in Runs |-> IF r = 1 THEN "start" ELSE "idle"]
  /\ call = [r \in Runs |-> NoCall]
  /\ calls = [r \in Runs |-> <<>>]

SpecWide == InitWide /\ [][Next]_vars

\* ------------------------------------------------------- ipa.check_env
\* check_env(required_utils) of ipa.py, called on its own.  The host has a
\* name (os.name) and a set of installed utilities; call[r] holds the
\* utilities not probed yet.
Utils == {"karect", "bowtie2", "samtools"}

UtilLists ==
  {<<>>} \cup {<<u>> : u \in Utils} \cup {<<u, v>> : u \in Utils, v \in Utils}

EnvHosts == [name : {"posix", "nt"}, installed : SUBSET Utils]

OSError(m) == [type |-> "OSError", message |-> m, cmd |-> None]

EnvCall(required_utils) ==
  [fn |-> "check_env", state |-> "entered", required_utils |-> required_utils,
   todo |-> required_utils]

\* subprocess.check_call(['which', util], stdout=null_handle,
\* stderr=null_handle): which exits 0 when util is on the PATH, 1 otherwise
which(util, installed) ==
  [Command(<< <<"which">>, <<util>> >>, DevNull, DevNull, {}, {}, {})
     EXCEPT !.returncode = IF util \in installed THEN 0 ELSE 1]

printed(r, text) ==
  Append(stderr[r], [by |-> "print", message |-> "", text |-> text])

\* the probe's return code is not checked
check_env_all(r) ==
  /\ pc[r] = "env"
  /\ \/ /\ call[r].state = "entered"
        /\ stderr' = [stderr EXCEPT ![r] = printed(r,
             <<"Ensuring that all necessary utilities are installed...">>)]
        /\ IF host.name = "posix"
           THEN call' = [call EXCEPT ![r].state = "probing"] /\ UNCHANGED exc
           ELSE /\ call' = [call EXCEPT ![r].state = "raised"]
                /\ exc' = [exc EXCEPT ![r] = OSError(
                     "This script is designed to execute in a POSIX environment only")]
        /\ UNCHANGED launched
     \/ /\ call[r].state = "probing" /\ call[r].todo # <<>>
        /\ LET util == Head(call[r].todo)
               c == which(util, host.installed)
           IN  /\ launched' = [launched EXCEPT ![r] = Append(@, c)]
               /\ call' = [call EXCEPT ![r].todo = Tail(@)]
               /\ stderr' = [stderr EXCEPT ![r] =
                               printed(r, <<util, " ", "found">>)]
               /\ UNCHANGED exc
     \/ /\ call[r].state = "probing" /\ call[r].todo = <<>>
        /\ stderr' = [stderr EXCEPT ![r] = printed(r,
             <<"All necessary utilities have been found. You are ready to assemble">>)]
        /\ call' = [call EXCEPT ![r].state = "returned"]
        /\ UNCHANGED <<launched, exc>>
  /\ UNCHANGED <<args, isatty, host, fs, pc, local, calls, stdin, stdout,
                 exit_status>>

\* One step of check_env: the first print and the test of os.name, then one
\* iteration of the loop per step, then the last print.
check_env(r) ==
  /\ pc[r] = "env"
  /\ \/ /\ call[r].state = "entered"
        /\ stderr' = [stderr EXCEPT ![r] = printed(r,
             <<"Ensuring that all necessary utilities are installed...">>)]
        /\ IF host.name = "posix"
           THEN call' = [call EXCEPT ![r].state = "probing"] /\ UNCHANGED exc
           ELSE /\ call' = [call EXCEPT ![r].state = "raised"]
                /\ exc' = [exc EXCEPT ![r] = OSError(
                     "This script is designed to execute in a POSIX environment only")]
        /\ UNCHANGED launched
     \/ /\ call[r].state = "probing" /\ call[r].todo # <<>>
        /\ LET util == Head(call[r].todo)
               c == which(util, host.installed)
               e == check(c.returncode, c.argv)
           IN  /\ launched' = [launched EXCEPT ![r] = Append(@, c)]
               /\ IF e.type # "none"
                  THEN /\ call' = [call EXCEPT ![r].state = "raised"]
                       /\ exc' = [exc EXCEPT ![r] = e]
                       /\ UNCHANGED stderr
                  ELSE /\ call' = [call EXCEPT ![r].todo = Tail(@)]
                       /\ stderr' = [stderr EXCEPT ![r] =
                                       printed(r, <<util, " ", "found">>)]
                       /\ UNCHANGED exc
     \/ /\ call[r].state = "probing" /\ call[r].todo = <<>>
        /\ stderr' = [stderr EXCEPT ![r] = printed(r,
             <<"All necessary utilities have been found. You are ready to assemble">>)]
        /\ call' = [call EXCEPT ![r].state = "returned"]
        /\ UNCHANGED <<launched, exc>>
  /\ UNCHANGED <<args, isatty, host, fs, pc, local, calls, stdin, stdout,
                 exit_status>>

InitEnv ==
  /\ isatty = [r \in Runs |-> FALSE]
  /\ host \in EnvHosts
  /\ fs = UserFs
  /\ local = [r \in Runs |-> NoLocal]
  /\ exc = [r \in Runs |-> NoExc]
  /\ launched = [r \in Runs |-> <<>>]
  /\ stdout = [r \in Runs |-> <<>>]
  /\ stderr = [r \in Runs |-> <<>>]
  /\ exit_status = [r \in Runs |-> -1]
  /\ args = [r \in Runs |-> NoArgs]
  /\ stdin = [r \in Runs |-> <<>>]
  /\ pc = [r \in Runs |-> IF r = 1 THEN "env" ELSE "idle"]
  /\ \E us \in UtilLists :
       call = [r \in Runs |-> IF r = 1 THEN EnvCall(us) ELSE NoCall]
  /\ calls = [r \in Runs |-> <<>>]

NextEnv == \E r \in Runs : check_env(r)

SpecEnv == InitEnv /\ [][NextEnv]_vars

\* ------------------------------------------------ the stages on their own
\* A stage function called directly, as the unit tests do, with any path
\* and any parameter.
TestPaths == UserFiles \cup {RefAbsent, ReadsAbsent, ReadsFqAbsent, None}

CellTypes ==
  {<<"h", "a", "p", "l", "o", "i", "d">>, <<"d", "i", "p", "l", "o", "i", "d">>,
   <<"h", "a", "p", "l", "o", "i", "d", "s">>, <<"n", "o">>, <<>>}

MatchTypes ==
  {<<"e", "d", "i", "t">>, <<"h", "a", "m", "m", "i", "n", "g">>,
   <<"i", "n", "s", "d", "e", "l">>, <<"e", "d", "i", "t", "s">>, <<"n", "o">>}

TestCalls ==
  {Call(fn, p, None, x, None, None, v) :
     fn \in {"bam_to_fq", "sam_to_bam", "sort_and_index", "format_consensus"},
     p \in TestPaths, x \in {None, prefix_of(0)}, v \in BOOLEAN}
  \cup
  {Call("read_correction", p, None, None, c, m, v) :
     p \in TestPaths, c \in CellTypes, m \in MatchTypes, v \in BOOLEAN}
  \cup
  {Call(fn, p, g, None, None, None, v) :
     fn \in {"read_alignment", "call_variants"},
     p \in TestPaths, g \in TestPaths, v \in BOOLEAN}

InitStage ==
  /\ InitCommon
  /\ args = [r \in Runs |-> NoArgs]
  /\ stdin = [r \in Runs |-> <<>>]
  /\ pc = [r \in Runs |-> IF r = 1 THEN "test" ELSE "idle"]
  /\ \E c \in TestCalls :
       /\ call = [r \in Runs |-> IF r = 1 THEN c ELSE NoCall]
       /\ calls = [r \in Runs |-> IF r = 1 THEN <<Started(c)>> ELSE <<>>]

NextStage == \E r \in Runs : Stage(r)

SpecStage == InitStage /\ [][NextStage]_vars

\* The test calls the stage again once it has returned: same function, same
\* paths, same prefix and parameters, any verbosity.
test_again(r) ==
  /\ pc[r] = "test"
  /\ call[r].state = "returned"
  /\ Len(calls[r]) < MaxTestCalls
  /\ \E v \in BOOLEAN :
       LET c == Call(call[r].fn, call[r].read_file, call[r].ref_genome_file,
                     call[r].prefix_id, call[r].cell_type, call[r].match_type,
                     v)
       IN  /\ call' = [call EXCEPT ![r] = c]
           /\ calls' = [calls EXCEPT ![r] = Append(@, Started(c))]
  /\ UNCHANGED <<args, isatty, host, fs, pc, local, exc, launched, stdin,
                 stdout, stderr, exit_status>>

NextRepeat == \E r \in Runs : Stage(r) \/ test_again(r)

SpecRepeat == InitStage /\ [][NextRepeat]_vars

\* The test calls the stage once more when it has returned, with the same
\* prefix and either other paths or other parameters: the new call's output
\* path is where the first call left its result.
test_other(r) ==
  /\ pc[r] = "test"
  /\ call[r].state = "returned"
  /\ Len(calls[r]) < MaxTestCalls
  /\ \E c \in TestCalls :
       /\ c.fn = call[r].fn
       /\ c.prefix_id = call[r].prefix_id
       /\ c.verbose = call[r].verbose
       /\ \/ /\ c.cell_type = call[r].cell_type
             /\ c.match_type = call[r].match_type
             /\ c.ref_genome_file = call[r].ref_genome_file
          \/ /\ c.read_file = call[r].read_file
             /\ c.cell_type = call[r].cell_type
          \/ /\ c.read_file = call[r].read_file
             /\ c.match_type = call[r].match_type
       /\ call' = [call EXCEPT ![r] = c]
       /\ calls' = [calls EXCEPT ![r] = Append(@, Started(c))]
  /\ UNCHANGED <<args, isatty, host, fs, pc, local, exc, launched, stdin,
                 stdout, stderr, exit_status>>

NextRetry == \E r \in Runs : Stage(r) \/ test_other(r)

SpecRetry == InitStage /\ [][NextRetry]_vars

\* ------------------------------------------------------------------ claims
\* the accepted extensions of each format
BamExts == {<<".", "b", "a", "m">>}
SamExts == {<<".", "s", "a", "m">>}
FastqExts == {<<".", "f", "a", "s", "t", "q">>, <<".", "f", "q">>}
FastaExts ==
  {<<".", "f", "a">>, <<".", "f", "n", "a">>, <<".", "f", "a", "s", "t", "a">>}

\* the format each stage declares for its read file and for its reference
ReadExts(fn) ==
  CASE fn \in {"bam_to_fq", "sort_and_index", "call_variants"} -> BamExts
    [] fn \in {"read_correction", "read_alignment"} -> FastqExts
    [] fn = "sam_to_bam" -> SamExts
    [] fn = "format_consensus" -> FastaExts

TakesRef(fn) == fn \in {"read_alignment", "call_variants"}

Mismatch(c) ==
  \/ Ext(c.read_file) \notin ReadExts(c.fn)
  \/ TakesRef(c.fn) /\ Ext(c.ref_genome_file) \notin FastaExts

Over(c) == c.state \in {"running", "returned", "raised"}

\* C1: a stage called with a path whose extension is not in its accepted
\* set raises ValueError and launches no subprocess.
C1_MismatchRaises ==
  \A r \in Runs :
    (pc[r] = "test" /\ Over(call[r]) /\ Mismatch(call[r]))
      => /\ call[r].state = "raised"
         /\ exc[r].type = "ValueError"
         /\ launched[r] = <<>>

\* C3: read_correction accepts cell_type exactly when it is haploid or
\* diploid and match_type exactly when it is edit, hamming or insdel; any
\* other string raises ValueError before karect is launched.
ValidParameters(c) ==
  /\ c.cell_type \in {<<"h", "a", "p", "l", "o", "i", "d">>,
                      <<"d", "i", "p", "l", "o", "i", "d">>}
  /\ c.match_type \in {<<"e", "d", "i", "t">>,
                       <<"h", "a", "m", "m", "i", "n", "g">>,
                       <<"i", "n", "s", "d", "e", "l">>}

C3_ParametersValidated ==
  \A r \in Runs :
    (pc[r] = "test" /\ call[r].fn = "read_correction" /\ Over(call[r])
       /\ ~Mismatch(call[r]) /\ isfile(UserFs, call[r].read_file))
      => IF ValidParameters(call[r])
         THEN exc[r].type # "ValueError"
         ELSE /\ call[r].state = "raised"
              /\ exc[r].type = "ValueError"
              /\ launched[r] = <<>>

\* --------------------------------------------------- claims about main()
Live(r) == pc[r] \notin {"idle", "test"}

Range(q) == {q[i] : i \in DOMAIN q}

LastError(r) == stderr[r][Len(stderr[r])]

\* C2: with a reference that exists but is a FASTQ file, main() starts no
\* external process and ends with the format-mismatch error.
C2_FastqReferenceRejected ==
  \A r \in Runs :
    (Live(r) /\ isfile(UserFs, args[r].ref)
       /\ Ext(args[r].ref) \in FastqExts)
      => /\ launched[r] = <<>>
         /\ pc[r] = "exited" =>
              /\ exc[r].type = "ValueError"
              /\ exit_status[r] = 1

\* the stage sequence main() is to follow
Order(a) ==
  IF a.disable_ec
  THEN <<"bam_to_fq", "read_alignment", "sam_to_bam", "sort_and_index",
         "call_variants", "format_consensus">>
  ELSE <<"bam_to_fq", "read_correction", "read_alignment", "sam_to_bam",
         "sort_and_index", "call_variants", "format_consensus">>

\* every stage of the sequence has returned and every command exited 0
AllReturned(r) ==
  /\ Len(calls[r]) = Len(Order(args[r]))
  /\ \A i \in DOMAIN calls[r] :
       calls[r][i].fn = Order(args[r])[i] /\ calls[r][i].ret # None
  /\ \A j \in DOMAIN launched[r] : launched[r][j].returncode = 0

Succeeded(r) ==
  /\ exc[r].type = "none"
  /\ AllReturned(r)
  /\ local[r].cleaned_consensus # None
  /\ local[r].lines = <<>>

\* C4: a run ends with status 0 exactly when every stage and the delivery
\* succeeded, and with status 1, through error(), after any ValueError,
\* EnvironmentError, CalledProcessError or KeyboardInterrupt.
C4_ExitStatus ==
  \A r \in Runs :
    Live(r) =>
      IF pc[r] = "exited"
      THEN /\ exit_status[r] \in {0, 1}
           /\ exit_status[r] = 0 <=> Succeeded(r)
           /\ exc[r].type # "none" =>
                /\ exit_status[r] = 1
                /\ Len(stderr[r]) > 0
                /\ LastError(r).by = "error"
      ELSE exit_status[r] = -1

C4_Witness ==
  /\ pc[1] = "exited"
  /\ exc[1].type = "KeyboardInterrupt"
  /\ call[1].state = "raised"
  /\ exit_status[1] = 1

\* a stage of the run has failed: it raised, or one of its commands exited
\* nonzero or was interrupted
StageFailed(r) ==
  \/ call[r].state = "raised"
  \/ \E j \in DOMAIN launched[r] :
       launched[r][j].returncode \notin {Running, 0}

NothingDelivered(r) ==
  /\ stdout[r] = <<>>
  /\ \A p \in {args[r].output} \cap DOMAIN fs : fs[p].writer # r

\* C5: once a stage has failed no further stage is started and nothing is
\* written to the output file or to standard output; delivery starts only
\* when every stage of the sequence has returned.
C5_FailFast ==
  /\ [](\A r \in Runs : (Live(r) /\ StageFailed(r)) => NothingDelivered(r))
  /\ [](\A r \in Runs :
          (Live(r) /\ (pc[r] = "deliver" \/ ~NothingDelivered(r)))
            => AllReturned(r))
  /\ [][\A r \in Runs :
          (Live(r) /\ StageFailed(r)) => calls'[r] = calls[r]]_vars

C5_Witness ==
  /\ pc[1] = "exited"
  /\ StageFailed(1)
  /\ Len(calls[1]) = 4
  /\ exc[1].type = "CalledProcessError"
  /\ args[1].output # None

\* C6: the stages are called in the fixed order, each at most once, each
\* after the one before it has returned and on the path that one returned;
\* read_alignment and call_variants get the user's reference.
C6_StageOrder ==
  \A r \in Runs :
    Live(r) =>
      LET cs == calls[r]
      IN  /\ Len(cs) <= Len(Order(args[r]))
          /\ \A i \in DOMAIN cs :
               /\ cs[i].fn = Order(args[r])[i]
               /\ TakesRef(cs[i].fn) => cs[i].ref_genome_file = args[r].ref
               /\ i = 1 => cs[i].read_file = local[r].ifile
               /\ i > 1 => /\ cs[i - 1].ret # None
                           /\ cs[i].read_file = cs[i - 1].ret
          /\ \A j \in DOMAIN launched[r] :
               j < Len(launched[r]) => launched[r][j].returncode = 0

C6_Witness ==
  /\ Len(calls[1]) = 7
  /\ calls[1][7].ret # None

\* the commands the stages can launch, for some arguments
AllCommands ==
  UNION { Range(bam_to_fq_cmds(p, x, v))
          \cup Range(read_correction_cmds(p, CHOOSE c \in CellTypes : TRUE,
                                          CHOOSE m \in MatchTypes : TRUE, v, h))
          \cup Range(read_alignment_cmds(p, g, x, v, h))
          \cup Range(sam_to_bam_cmds(p, x, v))
          \cup Range(sort_and_index_cmds(p, x, v, h))
          \cup Range(call_variants_cmds(p, g, x, v)) :
          p \in {ReadsBam, ReadsFq}, g \in {RefFa, RefFasta},
          x \in {None, prefix_of(0)}, v \in BOOLEAN, h \in Hosts }

\* the tool, and for samtools and bcftools the sub-command
CommandName(argv) ==
  IF argv[1] \in {<<"samtools">>, <<"bcftools">>}
  THEN <<argv[1], argv[2]>> ELSE <<argv[1]>>

\* C7: a command that exits nonzero is reported through error() with a
\* message fixed by its tool and sub-command, and no other command of the
\* pipeline has that message.
C7_StageSpecificMessage ==
  \A r \in Runs :
    (Live(r) /\ pc[r] = "exited" /\ exc[r].type = "CalledProcessError")
      => /\ Len(stderr[r]) > 0
         /\ LastError(r).by = "error"
         /\ LastError(r).message # ""
         /\ \A c \in AllCommands :
              (CommandName(c.argv) = CommandName(exc[r].cmd))
                <=> /\ called_process_error(c.argv).error
                    /\ called_process_error(c.argv).message
                         = LastError(r).message

C7_Witness ==
  /\ pc[1] = "exited"
  /\ exc[1].type = "CalledProcessError"
  /\ CommandName(exc[1].cmd) = << <<"samtools">>, <<"index">> >>

NoReference(r) ==
  /\ Live(r)
  /\ args[r].ref = None \/ ~isfile(UserFs, args[r].ref)

\* C8: without a reference, or with one that is not an existing file, the
\* run goes straight to the error: no stage, no process, no run
\* identifier, no read of standard input, no file written.
C8_NoReferenceNoStart ==
  /\ [](\A r \in Runs :
          NoReference(r) =>
            /\ calls[r] = <<>>
            /\ launched[r] = <<>>
            /\ local[r].prefix_id = None
            /\ \A p \in DOMAIN fs : fs[p].writer # r
            /\ pc[r] \in {"start", "exited"}
            /\ pc[r] = "exited" =>
                 /\ exit_status[r] = 1
                 /\ exc[r].type \in {"ValueError", "EnvironmentError"})
  /\ [][\A r \in Runs : NoReference(r) => stdin'[r] = stdin[r]]_vars

C8_Witness ==
  /\ pc[1] = "exited"
  /\ args[1].ref = RefAbsent
  /\ args[1].input = None
  /\ stdin[1] # <<>>

IsKarect(c) == c.argv[1] = <<"karect">>

\* C9: with disable_ec, karect is never launched and read_alignment gets
\* the path bam_to_fq returned; without it, read_alignment gets the path
\* read_correction returned.
C9_CorrectOrSkip ==
  \A r \in Runs :
    Live(r) =>
      LET cs == calls[r]
          before == IF args[r].disable_ec THEN "bam_to_fq"
                    ELSE "read_correction"
      IN  /\ args[r].disable_ec =>
               /\ \A j \in DOMAIN launched[r] : ~IsKarect(launched[r][j])
               /\ \A i \in DOMAIN cs : cs[i].fn # "read_correction"
          /\ \A i \in DOMAIN cs :
               cs[i].fn = "read_alignment" =>
                 /\ i > 1
                 /\ cs[i - 1].fn = before
                 /\ cs[i - 1].ret # None
                 /\ cs[i].read_file = cs[i - 1].ret

C9_Witness ==
  /\ args[1].disable_ec
  /\ Len(calls[1]) >= 2
  /\ calls[1][2].fn = "read_alignment"
  /\ call[1].state = "running"

\* C10: in verbose mode the stderr of every command launched is the
\* pipeline's own standard error.
C10_VerboseStderr ==
  \A r \in Runs :
    (Live(r) /\ args[r].verbose)
      => \A j \in DOMAIN launched[r] : launched[r][j].stderr = SysStderr

\* the output paths of the stages run r has called
Ofiles(r) ==
  {calls[r][i].ret : i \in DOMAIN calls[r]} \cup {call[r].ofile}

\* C11: in quiet mode no stream of any command launched is the pipeline's
\* standard error: the stdout and the stderr of every command go to the
\* null device or to the output file of the stage that launched it.
C11_QuietStreams ==
  \A r \in Runs :
    (Live(r) /\ ~args[r].verbose)
      => \A j \in DOMAIN launched[r] :
           LET c == launched[r][j]
           IN  /\ c.stdout # SysStderr /\ c.stderr # SysStderr
               /\ c.stdout \in {DevNull} \cup (Ofiles(r) \cap c.writes)
               /\ c.stderr \in {DevNull} \cup (Ofiles(r) \cap c.writes)

C11_Witness ==
  /\ ~args[1].verbose
  /\ Len(launched[1]) = 11
  /\ launched[1][11].returncode = 0

IsPrefix(a, b) == Len(a) <= Len(b) /\ SubSeq(b, 1, Len(a)) = a

\* C12: whatever the verbosity, sys.stdout receives only lines of the
\* formatted consensus, in order, and only when no output path was given;
\* no command has it as stdout or stderr and no status or error text is
\* printed on it.
C12_StdoutOnlyConsensus ==
  \A r \in Runs :
    Live(r) =>
      /\ \A j \in DOMAIN launched[r] :
           launched[r][j].stdout # SysStdout /\ launched[r][j].stderr # SysStdout
      /\ args[r].output # None => stdout[r] = <<>>
      /\ stdout[r] # <<>> =>
           /\ local[r].cleaned_consensus # None
           /\ IsPrefix(stdout[r], fs[local[r].cleaned_consensus].data)
      /\ \A i \in DOMAIN stdout[r], k \in DOMAIN stderr[r] :
           stdout[r][i] # stderr[r][k].text

C12_Witness ==
  /\ pc[1] = "exited"
  /\ args[1].verbose
  /\ args[1].output = None
  /\ Len(stdout[1]) = 2
  /\ Len(launched[1]) = 11

\* the capital of each letter a consensus can hold
Capital ==
  [c \in {"a", "c", "g", "t", "n", "h", "r"} |->
     CASE c = "a" -> "A" [] c = "c" -> "C" [] c = "g" -> "G" [] c = "t" -> "T"
       [] c = "n" -> "N" [] c = "h" -> "H" [] c = "r" -> "R"]

IsUpperOf(out, in) ==
  /\ Len(out) = Len(in)
  /\ \A k \in DOMAIN in :
       out[k] = IF in[k] \in DOMAIN Capital THEN Capital[in[k]] ELSE in[k]

\* C13: the file format_consensus returns has as many lines as the
\* consensus it read, in the same order: a line that starts with '>' is
\* copied unchanged, any other line is the upper case of the line read.
C13_FormatConsensus ==
  \A r \in Runs :
    (Live(r) /\ call[r].fn = "format_consensus" /\ call[r].state = "returned")
      => LET in == fs[call[r].read_file].data
             out == fs[call[r].ofile].data
         IN  /\ Len(out) = Len(in)
             /\ \A i \in DOMAIN in :
                  IF Len(in[i]) > 0 /\ in[i][1] = ">"
                  THEN out[i] = in[i]
                  ELSE IsUpperOf(out[i], in[i])

C13_Witness ==
  /\ call[1].fn = "format_consensus"
  /\ call[1].state = "returned"
  /\ fs[call[1].read_file].data = << <<">", "c", "h", "r">>, <<"a", "c", "G", "n">> >>
  /\ fs[call[1].ofile].data = << <<">", "c", "h", "r">>, <<"A", "C", "G", "N">> >>

\* <tempdir>/<run_id>_stdin_dump.bam for the identifier run r drew
DumpPath(r) ==
  gettempdir \o <<"/">> \o local[r].prefix_id
    \o <<"stdin_dump", ".", "b", "a", "m">>

\* run r is past the reference checks that open main()
Acquires(r) == Live(r) /\ isfile(UserFs, args[r].ref)

\* C14: an input path that exists is what bam_to_fq is called with, and
\* standard input is then never read; an input path that does not exist
\* ends the run with the environment error and no stage called; without an
\* input path every line of standard input is appended, in order, to
\* <tempdir>/<run_id>_stdin_dump.bam before bam_to_fq is called, and
\* bam_to_fq is called with that file.
C14_AcquireInput ==
  /\ [](\A r \in Runs :
          Acquires(r) =>
            IF args[r].input # None
            THEN IF isfile(UserFs, args[r].input)
                 THEN calls[r] # <<>> =>
                        /\ calls[r][1].fn = "bam_to_fq"
                        /\ calls[r][1].read_file = args[r].input
                 ELSE /\ calls[r] = <<>> /\ launched[r] = <<>>
                      /\ pc[r] = "exited" =>
                           /\ exc[r].type = "EnvironmentError"
                           /\ exit_status[r] = 1
            ELSE calls[r] # <<>> =>
                   /\ stdin[r] = <<>>
                   /\ calls[r][1].fn = "bam_to_fq"
                   /\ calls[r][1].read_file = DumpPath(r)
                   /\ isfile(fs, DumpPath(r)))
  /\ [][\A r \in Runs :
          /\ (Live(r) /\ args[r].input # None) => stdin'[r] = stdin[r]
          /\ (Live(r) /\ stdin'[r] # stdin[r]) =>
               /\ calls[r] = <<>> /\ calls'[r] = <<>>
               /\ isfile(fs, DumpPath(r))
               /\ fs'[DumpPath(r)].data \o stdin'[r]
                    = fs[DumpPath(r)].data \o stdin[r]
          /\ (Live(r) /\ pc[r] = "start" /\ pc'[r] = "stdin") =>
               /\ fs'[DumpPath(r)'].data = <<>>
               /\ stdin'[r] = stdin[r]]_vars

C14_Witness ==
  /\ args[1].input = None
  /\ stdin[1] = <<>>
  /\ Len(calls[1]) >= 2
  /\ calls[1][1].read_file = <<"/", "tmp", "/", "0", "_", "stdin_dump", ".", "b", "a", "m">>
  /\ fs[calls[1][1].read_file].data = << <<"bam1">>, <<"bam2">> >>

\* what run r has delivered so far, and the formatted consensus it delivers
Delivered(r) ==
  IF args[r].output # None THEN fs[args[r].output].data ELSE stdout[r]

Formatted(r) == fs[local[r].cleaned_consensus].data

DeliveryStarted(r) ==
  IF args[r].output # None
  THEN isfile(fs, args[r].output) /\ fs[args[r].output].writer = r
  ELSE stdout[r] # <<>>

SuccessStatus(r) ==
  \E k \in DOMAIN stderr[r] :
    /\ stderr[r][k].by = "status"
    /\ stderr[r][k].message
         = "The reference genome has been successfully assembled!"

\* C15: with an output path the lines of the formatted consensus are
\* written to that file, in order and unchanged, and nothing to sys.stdout;
\* without one the same lines go to sys.stdout; the success status is
\* printed only when every line has been delivered.
C15_DeliverOutput ==
  \A r \in Runs :
    Live(r) =>
      /\ args[r].output # None => stdout[r] = <<>>
      /\ args[r].output = None => ~isfile(fs, OutFa)
      /\ DeliveryStarted(r) =>
           /\ local[r].cleaned_consensus # None
           /\ Delivered(r) \o local[r].lines = Formatted(r)
      /\ SuccessStatus(r) =>
           /\ DeliveryStarted(r) \/ Formatted(r) = <<>>
           /\ Delivered(r) = Formatted(r)
           /\ pc[r] = "exited" /\ exit_status[r] = 0

C15_Witness ==
  /\ pc[1] = "exited"
  /\ SuccessStatus(1)
  /\ args[1].output = OutFa
  /\ fs[OutFa].data = << <<">", "c", "h", "r">>, <<"A", "C", "G", "N">> >>

\* ------------------------------------------------- claims about two runs
InTemp(p) == IsPrefix(gettempdir \o <<"/">>, p)

\* the paths run r has written or opened for writing, and those it has read
WrittenBy(r) ==
  UNION {c.opens \cup c.writes : c \in Range(launched[r])}
  \cup {local[r].ifile : x \in {local[r].ifile} \ {None, args[r].input}}
  \cup {c.ret : c \in {d \in Range(calls[r]) :
                           d.fn = "format_consensus" /\ d.ret # None}}

ReadBy(r) ==
  UNION {c.reads : c \in Range(launched[r])}
  \cup {c.read_file : c \in {d \in Range(calls[r]) :
                                 d.fn = "format_consensus"}}
  \cup ({local[r].cleaned_consensus} \ {None})

DrawnOnce ==
  \A r \in Runs :
    (Live(r) /\ local[r].prefix_id # None)
      => local'[r].prefix_id = local[r].prefix_id

\* <tempdir>/<run_id>_...
HasRunIdPrefix(r, p) == IsPrefix(join(gettempdir, local[r].prefix_id), p)

\* the paths the stages of run r have returned
Returns(r) == {c \in Range(calls[r]) : c.ret # None}

\* C17 as stated: the identifier is drawn once per run, and the file name
\* of every path a stage returns, read_correction included, begins with it.
C17_RunIdPrefix ==
  /\ [](\A r \in Runs :
          Live(r) => \A c \in Returns(r) : HasRunIdPrefix(r, c.ret))
  /\ [][DrawnOnce]_vars

\* C17 amended: the identifier is drawn once per run; the file name of the
\* path every stage but read_correction returns begins with it, and
\* read_correction returns <tempdir>/karect_<run_id>_bam_to_fq_out.fq, where
\* the identifier follows the prefix karect puts on its result.
C17_RunIdInName ==
  /\ [](\A r \in Runs :
          Live(r) =>
            \A c \in Returns(r) :
              IF c.fn = "read_correction"
              THEN c.ret = gettempdir \o <<"/", "karect_">>
                             \o local[r].prefix_id
                             \o <<"bam_to_fq_out", ".", "f", "q">>
              ELSE HasRunIdPrefix(r, c.ret))
  /\ [][DrawnOnce]_vars

C17_Witness ==
  /\ Len(calls[1]) = 7
  /\ calls[1][2].fn = "read_correction"
  /\ calls[1][2].ret = <<"/", "tmp", "/", "karect_", "1", "_", "bam_to_fq_out", ".", "f", "q">>
  /\ calls[1][7].ret = <<"/", "tmp", "/", "1", "_", "formatted_consensus", ".", "f", "a">>

\* --------------------------------------------- claims about repeated calls
\* C18: two calls of one stage with the same prefix_id, and for
\* read_correction the same read file, return the same path, whatever the
\* verbosity of each and although the first call has left its files behind.
C18_DeterministicNames ==
  \A r \in Runs :
    pc[r] = "test" =>
      \A i \in DOMAIN calls[r], j \in DOMAIN calls[r] :
        (/\ calls[r][i].fn = calls[r][j].fn
         /\ calls[r][i].prefix_id = calls[r][j].prefix_id
         /\ (calls[r][i].fn = "read_correction"
               => calls[r][i].read_file = calls[r][j].read_file)
         /\ calls[r][i].ret # None /\ calls[r][j].ret # None)
          => calls[r][i].ret = calls[r][j].ret

C18_Witness ==
  /\ pc[1] = "test"
  /\ Len(calls[1]) = 2
  /\ calls[1][1].fn = "bam_to_fq"
  /\ calls[1][1].prefix_id = prefix_of(0)
  /\ calls[1][1].ret # None /\ calls[1][2].ret # None
  /\ call[1].verbose
  /\ Len(launched[1]) = 2 /\ launched[1][1].stderr = DevNull

\* ------------------------------------------------ claims about interrupts
\* Ctrl-C arrived while check_call was waiting for a command of run r
InterruptedInStage(r) ==
  /\ call[r].state = "raised"
  /\ exc[r].type = "KeyboardInterrupt"
  /\ launched[r] # <<>>
  /\ launched[r][Len(launched[r])].returncode = Interrupted

\* what error() and status() print around a message on a terminal
Colours == {"ESC[31m", "ESC[32m", "ESC[0m"}

\* C20: a KeyboardInterrupt raised while a stage waits for its command ends
\* the run with exit status 1; error() is called with the empty message, so
\* no message text is printed; no stage is called and no command launched
\* afterwards, and nothing is delivered.
C20_InterruptInStage ==
  /\ [](\A r \in Runs :
          (Live(r) /\ InterruptedInStage(r)) =>
            /\ NothingDelivered(r)
            /\ pc[r] = "exited" \/ (InTry(r) /\ exit_status[r] = -1)
            /\ \A k \in DOMAIN stderr[r] :
                 stderr[r][k].by = "error" =>
                   /\ pc[r] = "exited" /\ k = Len(stderr[r])
                   /\ stderr[r][k].message = ""
                   /\ Range(stderr[r][k].text) \subseteq Colours \cup {""}
            /\ pc[r] = "exited" =>
                 /\ exit_status[r] = 1
                 /\ Len(stderr[r]) > 0 /\ LastError(r).by = "error")
  /\ [][\A r \in Runs :
          (Live(r) /\ InterruptedInStage(r)) =>
            /\ calls'[r] = calls[r]
            /\ launched'[r] = launched[r]
            /\ pc'[r] \in {pc[r], "exited"}]_vars

C20_Witness ==
  /\ pc[1] = "exited"
  /\ InterruptedInStage(1)
  /\ Len(calls[1]) = 5
  /\ Len(launched[1]) = 6
  /\ isatty[1]
  /\ exit_status[1] = 1

\* ------------------------------------------- claims about a stage's commands
\* the stage call of the test has returned
TestReturned(r) == pc[r] = "test" /\ call[r].state = "returned"

\* C21 as stated: a stage that returns has launched exactly one command.
C21_OneCommandPerStage ==
  \A r \in Runs :
    (TestReturned(r) /\ Len(calls[r]) = 1) => Len(launched[r]) = 1

\* the commands each stage function starts with check_call
Launches(fn) ==
  CASE fn \in {"bam_to_fq", "read_correction", "sam_to_bam"} -> 1
    [] fn \in {"read_alignment", "sort_and_index"} -> 2
    [] fn = "call_variants" -> 4
    [] fn = "format_consensus" -> 0

\* C21 amended: a call that returns has launched one command in bam_to_fq,
\* read_correction and sam_to_bam, two in read_alignment and in
\* sort_and_index, four in call_variants, none in format_consensus, and each
\* of them exited 0.
C21_CommandsPerStage ==
  \A r \in Runs :
    (TestReturned(r) /\ Len(calls[r]) = 1)
      => /\ Len(launched[r]) = Launches(call[r].fn)
         /\ \A j \in DOMAIN launched[r] : launched[r][j].returncode = 0

C21_Witness ==
  /\ TestReturned(1)
  /\ call[1].fn = "call_variants"
  /\ Len(launched[1]) = 4
  /\ launched[1][4].returncode = 0

\* ------------------------------------------------ claims about resources
\* command c is given the cores, and karect the memory ceiling, of host h
Reflects(c, h) ==
  /\ IsKarect(c) =>
       /\ c.argv[6] = <<"-threads=">> \o <<ToString(h.cores)>>
       /\ c.argv[7] = <<"-memory=">>
                        \o <<ToString(h.available \div 1000000000)>>
  /\ c.argv[1] = <<"bowtie2">> => c.argv[3] = <<ToString(h.cores)>>
  /\ (c.argv[1] = <<"samtools">> /\ c.argv[2] = <<"sort">>)
       => c.argv[6] = <<ToString(h.cores)>>

\* C22: the commands a stage sets up when it is entered carry the core
\* count and the available memory the host reports at that moment, and the
\* commands launched are those commands unchanged; nothing read by an
\* earlier stage is reused.
C22_FreshResources ==
  [][\A r \in Runs :
       Live(r) =>
         /\ (call[r].state = "called" /\ call'[r].state # "called")
              => \A c \in Range(call'[r].todo) : Reflects(c, host)
         /\ Len(launched'[r]) > Len(launched[r])
              => /\ launched'[r][Len(launched'[r])] = Head(call'[r].todo)
                 /\ call[r].state = "running"
                      => call'[r].todo = Tail(call[r].todo)]_vars

C22_Witness ==
  /\ Len(launched[1]) >= 6
  /\ IsKarect(launched[1][2])
  /\ launched[1][2].argv[6] = <<"-threads=", "1">>
  /\ launched[1][2].argv[7] = <<"-memory=", "1">>
  /\ launched[1][4].argv[1] = <<"bowtie2">>
  /\ launched[1][4].argv[3] = <<"2">>
  /\ launched[1][6].argv[2] = <<"sort">>
  /\ launched[1][6].argv[6] = <<"1">>

\* ------------------------------------------- claims about files not there
\* a path of the call names no file
Absent(c) ==
  \/ ~isfile(UserFs, c.read_file)
  \/ TakesRef(c.fn) /\ ~isfile(UserFs, c.ref_genome_file)

\* C23: with a well-named path that names no file, read_correction raises
\* ValueError and karect is not launched; bam_to_fq, read_alignment,
\* sam_to_bam, sort_and_index and call_variants raise no ValueError, launch
\* their command and never return: unless the tool cannot be started or the
\* user interrupts, the call ends in CalledProcessError.
C23_AbsentFile ==
  \A r \in Runs :
    (pc[r] = "test" /\ Over(call[r]) /\ ~Mismatch(call[r])
       /\ Absent(call[r]) /\ call[r].fn # "format_consensus")
      => IF call[r].fn = "read_correction"
         THEN /\ call[r].state = "raised"
              /\ exc[r].type = "ValueError"
              /\ launched[r] = <<>>
         ELSE /\ exc[r].type # "ValueError"
              /\ call[r].state # "returned"
              /\ (call[r].state = "raised"
                    /\ exc[r].type \notin {"EnvironmentError",
                                            "KeyboardInterrupt"})
                   => /\ exc[r].type = "CalledProcessError"
                      /\ launched[r] # <<>>
                      /\ launched[r][Len(launched[r])].returncode = 1
                      /\ exc[r].cmd = launched[r][Len(launched[r])].argv

C23_Witness ==
  /\ pc[1] = "test"
  /\ call[1].fn = "read_alignment"
  /\ call[1].read_file = ReadsFqAbsent
  /\ call[1].ref_genome_file = RefFa
  /\ call[1].state = "raised"
  /\ exc[1].type = "CalledProcessError"
  /\ exc[1].cmd[1] = <<"bowtie2">>

\* ----------------------------------------------- claims about check_env
\* the utilities of us in front of the first one that is not installed
FoundFirst(us, installed) ==
  LET missing == {i \in DOMAIN us : us[i] \notin installed}
  IN  IF missing = {} THEN Len(us)
      ELSE (CHOOSE i \in missing : \A j \in missing : i <= j) - 1

\* C24: off POSIX check_env raises OSError and starts no which; on POSIX it
\* probes the utilities in list order with one which each, raises
\* CalledProcessError at the first one not installed and probes none after
\* it, and returns when the list is empty or every utility is installed.
C24_CheckEnv ==
  \A r \in Runs :
    pc[r] = "env" =>
      LET us == call[r].required_utils
          n == FoundFirst(us, host.installed)
          ws == launched[r]
      IN  /\ \A j \in DOMAIN ws :
               /\ j <= Len(us)
               /\ ws[j].argv = << <<"which">>, <<us[j]>> >>
               /\ j < Len(ws) => ws[j].returncode = 0
          /\ host.name # "posix" =>
               /\ ws = <<>>
               /\ call[r].state \in {"entered", "raised"}
               /\ call[r].state = "raised" => exc[r].type = "OSError"
          /\ (host.name = "posix" /\ call[r].state = "raised") =>
               /\ n < Len(us)
               /\ Len(ws) = n + 1
               /\ exc[r].type = "CalledProcessError"
               /\ exc[r].cmd = << <<"which">>, <<us[n + 1]>> >>
          /\ call[r].state = "returned" =>
               /\ host.name = "posix"
               /\ n = Len(us) /\ Len(ws) = Len(us)
               /\ exc[r].type = "none"
          /\ (host.name = "posix" /\ call[r].state = "probing"
                /\ call[r].todo = <<>>) => n = Len(us)

C24_Witness ==
  /\ pc[1] = "env"
  /\ host.name = "posix"
  /\ call[1].required_utils = <<"samtools", "karect">>
  /\ host.installed = {"bowtie2", "karect"}
  /\ call[1].state = "raised"
  /\ Len(launched[1]) = 1

\* ---------------------------------------------- claims about termination
\* what belongs to run r
OfRun(r) ==
  <<pc[r], local[r], call[r], exc[r], calls[r], launched[r], stdin[r],
    stdout[r], stderr[r], exit_status[r]>>

\* C25: once an exception is on its way to the except clauses nothing but
\* error() happens: no stage, no process, no delivery, and the exception
\* stays; while the process a stage waits for has not exited the run does
\* nothing; and a run in which standard input ends and every process exits
\* ends, with status 0 or 1.
C25_AbsorbingError ==
  /\ [][\A r \in Runs :
          (Live(r) /\ exc[r].type # "none") =>
            /\ exc'[r] = exc[r]
            /\ calls'[r] = calls[r] /\ launched'[r] = launched[r]
            /\ stdout'[r] = stdout[r] /\ fs' = fs
            /\ pc'[r] \in {pc[r], "exited"}
            /\ pc[r] = "exited" => OfRun(r)' = OfRun(r)]_vars
  /\ [][\A r \in Runs :
          (/\ Live(r) /\ call[r].state = "running"
           /\ Len(launched'[r]) >= Len(launched[r])
           /\ launched'[r][Len(launched[r])].returncode = Running)
            => OfRun(r)' = OfRun(r)]_vars
  /\ \A r \in Runs :
       (pc[r] = "start") ~> (pc[r] = "exited" /\ exit_status[r] \in {0, 1})

C25_Witness ==
  /\ pc[1] = "exited"
  /\ exit_status[1] = 1
  /\ exc[1].type = "CalledProcessError"
  /\ Len(calls[1]) = 3
  /\ args[1].output = OutFa
  /\ ~isfile(fs, OutFa)

\* ------------------------------------------------ claims about the options
Haploid == <<"h", "a", "p", "l", "o", "i", "d">>

Diploid == <<"d", "i", "p", "l", "o", "i", "d">>

Edit == <<"e", "d", "i", "t">>

Insdel == <<"i", "n", "s", "d", "e", "l">>

Hamming == <<"h", "a", "m", "m", "i", "n", "g">>

ParameterErrors ==
  {"The cell type is not a valid value", "The match type is not a valid value"}

\* C26: main() hands read_correction haploid for ploidy n and diploid for any
\* other ploidy, edit for mode equal, insdel for mode indel and hamming for
\* any other mode; the values are always among those read_correction accepts
\* and no run of main() ends in its cell type or match type error, whatever
\* args['ploidy'] and args['mode'] hold.
C26_OptionMapping ==
  \A r \in Runs :
    /\ call[r].fn = "read_correction" =>
          /\ (args[r].ploidy = <<"n">>) <=> (call[r].cell_type = Haploid)
          /\ (args[r].ploidy # <<"n">>) <=> (call[r].cell_type = Diploid)
          /\ (args[r].mode = <<"equal">>) <=> (call[r].match_type = Edit)
          /\ (args[r].mode = <<"indel">>) <=> (call[r].match_type = Insdel)
          /\ (args[r].mode \notin {<<"equal">>, <<"indel">>})
               <=> (call[r].match_type = Hamming)
          /\ call[r].cell_type \in {Haploid, Diploid}
          /\ call[r].match_type \in {Edit, Insdel, Hamming}
    /\ exc[r].message \notin ParameterErrors

\* read_correction has returned in a run whose ploidy and mode are outside the
\* parser's choices
C26_Witness ==
  \E r \in Runs :
    /\ call[r].fn = "read_correction" /\ call[r].state = "returned"
    /\ args[r].ploidy = <<"4n">> /\ args[r].mode = <<"other">>
    /\ call[r].cell_type = Diploid /\ call[r].match_type = Hamming

\* ------------------------------- claims about runs with the same identifier
\* run r has a command running that reads temp file p, which run q wrote last
ReadsFrom(r, q, p) ==
  /\ launched[r] # <<>>
  /\ launched[r][Len(launched[r])].returncode = Running
  /\ p \in launched[r][Len(launched[r])].reads
  /\ InTemp(p)
  /\ p \in DOMAIN fs
  /\ fs[p].writer = q

\* C27: two concurrent runs that drew the same identifier: the stdin dump
\* path is the same for both, and every stage returns in one run the path it
\* returns in the other (read_correction: when given the same read file), so
\* the runs keep every intermediate artifact at the same place.
C27_SharedTempPaths ==
  \A r \in Runs, q \in Runs :
    (/\ Live(r) /\ Live(q)
     /\ local[r].prefix_id # None /\ local[q].prefix_id # None)
      => /\ local[r].prefix_id = local[q].prefix_id
         /\ DumpPath(r) = DumpPath(q)
         /\ \A c \in Returns(r), d \in Returns(q) :
              (c.fn = d.fn /\ (c.fn = "read_correction"
                                 => c.read_file = d.read_file))
                => c.ret = d.ret

\* a command of run 1 is reading a temp file that run 2 wrote last, both
\* runs holding the same identifier
C27_Witness ==
  /\ local[1].prefix_id # None
  /\ local[1].prefix_id = local[2].prefix_id
  /\ \E p \in DOMAIN fs : ReadsFrom(1, 2, p)

\* ------------------------------------------- claims about the format chain
\* the check a stage makes on the extension of its read file
FormatOk(fn, p) ==
  CASE fn \in {"bam_to_fq", "sort_and_index", "call_variants"} -> ~not_bam(p)
    [] fn \in {"read_correction", "read_alignment"} -> ~not_fastq(p)
    [] fn = "sam_to_bam" -> ~not_sam(p)
    [] fn = "format_consensus" -> ~not_fasta(p)

FormatErrors ==
  {"The read file is not in BAM format",
   "The read file is not in FASTQ format",
   "The read file is not in SAM format",
   "The reference genome file is not in FASTA format",
   "The consensus file is not in FASTA format"}

CommandOrders ==
  { << << <<"bowtie2-build">> >>, << <<"bowtie2">> >> >>,
    << << <<"samtools">>, <<"sort">> >>, << <<"samtools">>, <<"index">> >> >>,
    << << <<"samtools">>, <<"mpileup">> >>, << <<"bcftools">>, <<"call">> >>,
       << <<"bcftools">>, <<"index">> >>,
       << <<"bcftools">>, <<"consensus">> >> >> }

NameOf(r, k) == CommandName(launched[r][k].argv)

\* C29: in read_alignment, sort_and_index and call_variants a command other
\* than the stage's first is launched only right after the command before it
\* in the stage's order, and only when that one has exited with status 0.
C29_CommandOrder ==
  \A r \in Runs :
    Live(r) =>
      \A k \in DOMAIN launched[r], o \in CommandOrders, m \in 2..4 :
        (m <= Len(o) /\ NameOf(r, k) = o[m])
          => /\ k > 1
             /\ NameOf(r, k - 1) = o[m - 1]
             /\ launched[r][k - 1].returncode = 0

\* bcftools index has failed after mpileup and bcftools call went through:
\* the run has ended and bcftools consensus was not launched
C29_Witness ==
  LET n == Len(launched[1])
  IN  /\ pc[1] = "exited"
      /\ n >= 3
      /\ NameOf(1, n) = << <<"bcftools">>, <<"index">> >>
      /\ launched[1][n].returncode = 1
      /\ NameOf(1, n - 1) = << <<"bcftools">>, <<"call">> >>
      /\ NameOf(1, n - 2) = << <<"samtools">>, <<"mpileup">> >>

\* ------------------------------------------ claims about argument checks
\* the step in which a stage that was just called raises ValueError
FailsValidation(r) ==
  /\ pc[r] = "test"
  /\ call[r].state = "called"
  /\ call'[r].state = "raised"
  /\ exc'[r].type = "ValueError"

\* C30: a stage raises ValueError only as its first step, before it has
\* printed its status line, opened a file or launched a command; the step
\* leaves the file system, with whatever an earlier call left at the
\* stage's output path, the standard error text and the command log as they
\* were.
C30_ValidateFirst ==
  /\ [][\A r \in Runs :
          FailsValidation(r)
            => /\ fs' = fs
               /\ stderr'[r] = stderr[r]
               /\ launched'[r] = launched[r]]_vars
  /\ [][\A r \in Runs :
          (pc[r] = "test" /\ call[r].state = "running")
            => exc'[r].type # "ValueError"]_vars
  /\ [](\A r \in Runs :
          (pc[r] = "test" /\ call[r].state = "raised"
             /\ exc[r].type = "ValueError")
            => \A i \in DOMAIN calls[r] :
                 calls[r][i].ret # None
                   => /\ calls[r][i].ret \in DOMAIN fs
                      /\ fs[calls[r][i].ret].data # <<>>
                      /\ Len(stderr[r]) = Len(calls[r]) - 1)

C30_Witness ==
  /\ pc[1] = "test"
  /\ Len(calls[1]) = 2
  /\ calls[1][1].fn = "sam_to_bam"
  /\ calls[1][1].ret = sam_to_bam_ofile(calls[1][2].prefix_id)
  /\ call[1].state = "raised"
  /\ exc[1].type = "ValueError"
  /\ fs[calls[1][1].ret].data # <<>>
  /\ launched[1][Len(launched[1])].returncode = 0

====
